---- MODULE Spec2Model ----
(***************************************************************************)
(* A model of cmyui's asynchronous multi-domain HTTP server                *)
(* (src/cmyui/web.py): the wire parser of Connection, the response writer, *)
(* the Domain/Route router, Server.dispatch / Server.handle and the        *)
(* runner / shutdown lifecycle of Server.run.                              *)
(*                                                                         *)
(* Text (str and bytes alike) is a sequence of one-character strings.      *)
(* Python indices are kept 0-based in find / SliceTo / SliceFrom so that   *)
(* the code's index arithmetic (including find() returning -1) is modelled *)
(* as written.                                                             *)
(*                                                                         *)
(* A value the code computes once and reads several times is passed on as  *)
(* an operator argument, so each definition below is one stretch of the    *)
(* code between two such values.                                           *)
(***************************************************************************)
EXTENDS Integers, Sequences, FiniteSets, TLC

(***************************************************************************)
(* Python str / bytes primitives                                           *)
(***************************************************************************)

\* s.startswith(pat, i) with i a 1-based position of s.
StartsWithAt(s, pat, i) ==
    /\ i >= 1
    /\ i + Len(pat) - 1 <= Len(s)
    /\ pat = <<>> \/ s[i] = pat[1]
    /\ \A k \in 1..Len(pat) : s[i + k - 1] = pat[k]

\* s.find(pat): the 0-based index of the first occurrence, -1 when absent.
FirstHit(hits) ==
    IF hits = {} THEN -1
    ELSE (CHOOSE i \in hits : \A j \in hits : i <= j) - 1
find(s, pat) == FirstHit({i \in 1..(Len(s) + 1) : StartsWithAt(s, pat, i)})

\* pat in s
Contains(s, pat) == find(s, pat) # -1

\* s[:e] for a Python index e (negative counts from the end).
SliceTo(s, e) ==
    LET n  == Len(s)
        e1 == IF e < 0 THEN (IF n + e < 0 THEN 0 ELSE n + e)
              ELSE (IF e > n THEN n ELSE e)
    IN  SubSeq(s, 1, e1)

\* s[b:] for a Python index b (negative counts from the end).
SliceFrom(s, b) ==
    LET n  == Len(s)
        b1 == IF b < 0 THEN (IF n + b < 0 THEN 0 ELSE n + b)
              ELSE (IF b > n THEN n ELSE b)
    IN  SubSeq(s, b1 + 1, n)

\* s.split(sep): always at least one piece.
RECURSIVE split(_, _)
SplitAt(s, sep, i) ==
    IF i = -1 THEN <<s>>
    ELSE <<SliceTo(s, i)>> \o split(SliceFrom(s, i + Len(sep)), sep)
split(s, sep) == SplitAt(s, sep, find(s, sep))

\* s.split(sep, 1): one or two pieces.
Split1At(s, sep, i) ==
    IF i = -1 THEN <<s>>
    ELSE <<SliceTo(s, i), SliceFrom(s, i + Len(sep))>>
split1(s, sep) == Split1At(s, sep, find(s, sep))

(***************************************************************************)
(* Characters                                                              *)
(***************************************************************************)
\* A character is a string and a text a sequence of characters; a byte is a
\* string and a bytes object a sequence of bytes.  The characters and bytes
\* of ASCII are written as they are, the whitespace among the control
\* characters too.  The other control characters and the grave accent (which
\* no string of the module can hold) are written like the characters
\* outside ASCII, as Python's ascii() writes them: "\\x00", "\\xe9",
\* "\\u0130", "\\U0001d7ce".  A byte from 0x80 on is written as repr()
\* writes it, "\\x80" to "\\xff".
Ascii ==
    <<"\\x00", "\\x01", "\\x02", "\\x03", "\\x04", "\\x05", "\\x06", "\\x07",
      "\\x08", "\t", "\n", "", "\f", "\r", "\\x0e", "\\x0f", "\\x10",
      "\\x11", "\\x12", "\\x13", "\\x14", "\\x15", "\\x16", "\\x17", "\\x18",
      "\\x19", "\\x1a", "\\x1b", "", "", "", "", " ", "!", "\"", "#", "$",
      "%", "&", "'", "(", ")", "*", "+", ",", "-", ".", "/", "0", "1", "2",
      "3", "4", "5", "6", "7", "8", "9", ":", ";", "<", "=", ">", "?", "@",
      "A", "B", "C", "D", "E", "F", "G", "H", "I", "J", "K", "L", "M", "N",
      "O", "P", "Q", "R", "S", "T", "U", "V", "W", "X", "Y", "Z", "[", "\\",
      "]", "^", "_", "\\x60", "a", "b", "c", "d", "e", "f", "g", "h", "i",
      "j", "k", "l", "m", "n", "o", "p", "q", "r", "s", "t", "u", "v", "w",
      "x", "y", "z", "{", "|", "}", "~", "\\x7f">>
HexDigit ==
    <<"0", "1", "2", "3", "4", "5", "6", "7", "8", "9",
      "a", "b", "c", "d", "e", "f">>
RECURSIVE Hex(_, _)
Hex(n, w) ==
    IF w = 0 THEN "" ELSE Hex(n \div 16, w - 1) \o HexDigit[(n % 16) + 1]

\* chr(n)
chr(n) ==
    IF n < 128 THEN Ascii[n + 1]
    ELSE IF n < 256 THEN "\\x" \o Hex(n, 2)
    ELSE IF n < 65536 THEN "\\u" \o Hex(n, 4)
    ELSE "\\U" \o Hex(n, 8)

\* ord(c)
RECURSIVE HexNumber(_)
HexNumber(h) ==
    IF h = "" THEN 0
    ELSE 16 * HexNumber(SubSeq(h, 1, Len(h) - 1))
         + (CHOOSE k \in 0..15 : HexDigit[k + 1] = SubSeq(h, Len(h), Len(h)))
AsciiCode == [c \in {Ascii[n + 1] : n \in 0..127} |-> CHOOSE n \in 0..127 : Ascii[n + 1] = c]
ord(c) ==
    IF Len(c) = 1 THEN AsciiCode[c]
    ELSE HexNumber(SubSeq(c, 3, Len(c)))

(***************************************************************************)
(* The Unicode character database (version 14.0.0, as CPython 3.11 holds   *)
(* it).  A row <<lo, hi, step>> stands for the code points lo, lo + step,  *)
(* ..., hi; a row <<lo, hi, step, delta>> maps each of them to itself plus *)
(* delta; a row <<n, <<m1, ..., mk>>>> maps n to k code points.            *)
(***************************************************************************)
\* str.isspace()
SpaceRows ==
    <<<<9, 13, 1>>, <<28, 32, 1>>, <<133, 133, 1>>, <<160, 160, 1>>,
      <<5760, 5760, 1>>, <<8192, 8202, 1>>, <<8232, 8233, 1>>,
      <<8239, 8239, 1>>, <<8287, 8287, 1>>, <<12288, 12288, 1>>>>
\* str.islower(), str.isupper(): the properties Lowercase and Uppercase
LowercaseRows ==
    <<<<97, 122, 1>>, <<170, 170, 1>>, <<181, 181, 1>>, <<186, 186, 1>>,
      <<223, 246, 1>>, <<248, 255, 1>>, <<257, 311, 2>>, <<312, 328, 2>>,
      <<329, 375, 2>>, <<378, 382, 2>>, <<383, 384, 1>>, <<387, 389, 2>>,
      <<392, 392, 1>>, <<396, 397, 1>>, <<402, 402, 1>>, <<405, 405, 1>>,
      <<409, 411, 1>>, <<414, 414, 1>>, <<417, 421, 2>>, <<424, 426, 2>>,
      <<427, 429, 2>>, <<432, 432, 1>>, <<436, 438, 2>>, <<441, 442, 1>>,
      <<445, 447, 1>>, <<454, 454, 1>>, <<457, 457, 1>>, <<460, 476, 2>>,
      <<477, 495, 2>>, <<496, 496, 1>>, <<499, 501, 2>>, <<505, 563, 2>>,
      <<564, 569, 1>>, <<572, 572, 1>>, <<575, 576, 1>>, <<578, 578, 1>>,
      <<583, 591, 2>>, <<592, 659, 1>>, <<661, 696, 1>>, <<704, 705, 1>>,
      <<736, 740, 1>>, <<837, 837, 1>>, <<881, 883, 2>>, <<887, 887, 1>>,
      <<890, 893, 1>>, <<912, 912, 1>>, <<940, 974, 1>>, <<976, 977, 1>>,
      <<981, 983, 1>>, <<985, 1007, 2>>, <<1008, 1011, 1>>, <<1013, 1013, 1>>,
      <<1016, 1016, 1>>, <<1019, 1020, 1>>, <<1072, 1119, 1>>,
      <<1121, 1153, 2>>, <<1163, 1215, 2>>, <<1218, 1230, 2>>,
      <<1231, 1327, 2>>, <<1376, 1416, 1>>, <<4304, 4346, 1>>,
      <<4349, 4351, 1>>, <<5112, 5117, 1>>, <<7296, 7304, 1>>,
      <<7424, 7615, 1>>, <<7681, 7829, 2>>, <<7830, 7837, 1>>,
      <<7839, 7935, 2>>, <<7936, 7943, 1>>, <<7952, 7957, 1>>,
      <<7968, 7975, 1>>, <<7984, 7991, 1>>, <<8000, 8005, 1>>,
      <<8016, 8023, 1>>, <<8032, 8039, 1>>, <<8048, 8061, 1>>,
      <<8064, 8071, 1>>, <<8080, 8087, 1>>, <<8096, 8103, 1>>,
      <<8112, 8116, 1>>, <<8118, 8119, 1>>, <<8126, 8126, 1>>,
      <<8130, 8132, 1>>, <<8134, 8135, 1>>, <<8144, 8147, 1>>,
      <<8150, 8151, 1>>, <<8160, 8167, 1>>, <<8178, 8180, 1>>,
      <<8182, 8183, 1>>, <<8305, 8305, 1>>, <<8319, 8319, 1>>,
      <<8336, 8348, 1>>, <<8458, 8458, 1>>, <<8462, 8463, 1>>,
      <<8467, 8467, 1>>, <<8495, 8495, 1>>, <<8500, 8500, 1>>,
      <<8505, 8505, 1>>, <<8508, 8509, 1>>, <<8518, 8521, 1>>,
      <<8526, 8526, 1>>, <<8560, 8575, 1>>, <<8580, 8580, 1>>,
      <<9424, 9449, 1>>, <<11312, 11359, 1>>, <<11361, 11361, 1>>,
      <<11365, 11366, 1>>, <<11368, 11372, 2>>, <<11377, 11379, 2>>,
      <<11380, 11382, 2>>, <<11383, 11389, 1>>, <<11393, 11491, 2>>,
      <<11492, 11492, 1>>, <<11500, 11502, 2>>, <<11507, 11507, 1>>,
      <<11520, 11557, 1>>, <<11559, 11559, 1>>, <<11565, 11565, 1>>,
      <<42561, 42605, 2>>, <<42625, 42651, 2>>, <<42652, 42653, 1>>,
      <<42787, 42799, 2>>, <<42800, 42801, 1>>, <<42803, 42863, 2>>,
      <<42864, 42872, 1>>, <<42874, 42876, 2>>, <<42879, 42887, 2>>,
      <<42892, 42894, 2>>, <<42897, 42899, 2>>, <<42900, 42901, 1>>,
      <<42903, 42921, 2>>, <<42927, 42927, 1>>, <<42933, 42947, 2>>,
      <<42952, 42954, 2>>, <<42961, 42969, 2>>, <<42998, 43000, 2>>,
      <<43001, 43002, 1>>, <<43824, 43866, 1>>, <<43868, 43880, 1>>,
      <<43888, 43967, 1>>, <<64256, 64262, 1>>, <<64275, 64279, 1>>,
      <<65345, 65370, 1>>, <<66600, 66639, 1>>, <<66776, 66811, 1>>,
      <<66967, 66977, 1>>, <<66979, 66993, 1>>, <<66995, 67001, 1>>,
      <<67003, 67004, 1>>, <<67456, 67456, 1>>, <<67459, 67461, 1>>,
      <<67463, 67504, 1>>, <<67506, 67514, 1>>, <<68800, 68850, 1>>,
      <<71872, 71903, 1>>, <<93792, 93823, 1>>, <<119834, 119859, 1>>,
      <<119886, 119892, 1>>, <<119894, 119911, 1>>, <<119938, 119963, 1>>,
      <<119990, 119993, 1>>, <<119995, 119997, 2>>, <<119998, 120003, 1>>,
      <<120005, 120015, 1>>, <<120042, 120067, 1>>, <<120094, 120119, 1>>,
      <<120146, 120171, 1>>, <<120198, 120223, 1>>, <<120250, 120275, 1>>,
      <<120302, 120327, 1>>, <<120354, 120379, 1>>, <<120406, 120431, 1>>,
      <<120458, 120485, 1>>, <<120514, 120538, 1>>, <<120540, 120545, 1>>,
      <<120572, 120596, 1>>, <<120598, 120603, 1>>, <<120630, 120654, 1>>,
      <<120656, 120661, 1>>, <<120688, 120712, 1>>, <<120714, 120719, 1>>,
      <<120746, 120770, 1>>, <<120772, 120777, 1>>, <<120779, 120779, 1>>,
      <<122624, 122633, 1>>, <<122635, 122654, 1>>, <<125218, 125251, 1>>>>
UppercaseRows ==
    <<<<65, 90, 1>>, <<192, 214, 1>>, <<216, 222, 1>>, <<256, 310, 2>>,
      <<313, 327, 2>>, <<330, 376, 2>>, <<377, 381, 2>>, <<385, 386, 1>>,
      <<388, 390, 2>>, <<391, 393, 2>>, <<394, 395, 1>>, <<398, 401, 1>>,
      <<403, 404, 1>>, <<406, 408, 1>>, <<412, 413, 1>>, <<415, 416, 1>>,
      <<418, 422, 2>>, <<423, 425, 2>>, <<428, 430, 2>>, <<431, 433, 2>>,
      <<434, 435, 1>>, <<437, 439, 2>>, <<440, 440, 1>>, <<444, 444, 1>>,
      <<452, 452, 1>>, <<455, 455, 1>>, <<458, 458, 1>>, <<461, 475, 2>>,
      <<478, 494, 2>>, <<497, 497, 1>>, <<500, 502, 2>>, <<503, 504, 1>>,
      <<506, 562, 2>>, <<570, 571, 1>>, <<573, 574, 1>>, <<577, 579, 2>>,
      <<580, 582, 1>>, <<584, 590, 2>>, <<880, 882, 2>>, <<886, 886, 1>>,
      <<895, 895, 1>>, <<902, 904, 2>>, <<905, 906, 1>>, <<908, 910, 2>>,
      <<911, 913, 2>>, <<914, 929, 1>>, <<931, 939, 1>>, <<975, 975, 1>>,
      <<978, 980, 1>>, <<984, 1006, 2>>, <<1012, 1012, 1>>, <<1015, 1017, 2>>,
      <<1018, 1018, 1>>, <<1021, 1071, 1>>, <<1120, 1152, 2>>,
      <<1162, 1216, 2>>, <<1217, 1229, 2>>, <<1232, 1326, 2>>,
      <<1329, 1366, 1>>, <<4256, 4293, 1>>, <<4295, 4295, 1>>,
      <<4301, 4301, 1>>, <<5024, 5109, 1>>, <<7312, 7354, 1>>,
      <<7357, 7359, 1>>, <<7680, 7828, 2>>, <<7838, 7934, 2>>,
      <<7944, 7951, 1>>, <<7960, 7965, 1>>, <<7976, 7983, 1>>,
      <<7992, 7999, 1>>, <<8008, 8013, 1>>, <<8025, 8031, 2>>,
      <<8040, 8047, 1>>, <<8120, 8123, 1>>, <<8136, 8139, 1>>,
      <<8152, 8155, 1>>, <<8168, 8172, 1>>, <<8184, 8187, 1>>,
      <<8450, 8450, 1>>, <<8455, 8455, 1>>, <<8459, 8461, 1>>,
      <<8464, 8466, 1>>, <<8469, 8469, 1>>, <<8473, 8477, 1>>,
      <<8484, 8490, 2>>, <<8491, 8493, 1>>, <<8496, 8499, 1>>,
      <<8510, 8511, 1>>, <<8517, 8517, 1>>, <<8544, 8559, 1>>,
      <<8579, 8579, 1>>, <<9398, 9423, 1>>, <<11264, 11311, 1>>,
      <<11360, 11362, 2>>, <<11363, 11364, 1>>, <<11367, 11373, 2>>,
      <<11374, 11376, 1>>, <<11378, 11378, 1>>, <<11381, 11381, 1>>,
      <<11390, 11392, 1>>, <<11394, 11490, 2>>, <<11499, 11501, 2>>,
      <<11506, 11506, 1>>, <<42560, 42604, 2>>, <<42624, 42650, 2>>,
      <<42786, 42798, 2>>, <<42802, 42862, 2>>, <<42873, 42877, 2>>,
      <<42878, 42886, 2>>, <<42891, 42893, 2>>, <<42896, 42898, 2>>,
      <<42902, 42922, 2>>, <<42923, 42926, 1>>, <<42928, 42932, 1>>,
      <<42934, 42948, 2>>, <<42949, 42951, 1>>, <<42953, 42953, 1>>,
      <<42960, 42960, 1>>, <<42966, 42968, 2>>, <<42997, 42997, 1>>,
      <<65313, 65338, 1>>, <<66560, 66599, 1>>, <<66736, 66771, 1>>,
      <<66928, 66938, 1>>, <<66940, 66954, 1>>, <<66956, 66962, 1>>,
      <<66964, 66965, 1>>, <<68736, 68786, 1>>, <<71840, 71871, 1>>,
      <<93760, 93791, 1>>, <<119808, 119833, 1>>, <<119860, 119885, 1>>,
      <<119912, 119937, 1>>, <<119964, 119966, 2>>, <<119967, 119967, 1>>,
      <<119970, 119970, 1>>, <<119973, 119974, 1>>, <<119977, 119980, 1>>,
      <<119982, 119989, 1>>, <<120016, 120041, 1>>, <<120068, 120069, 1>>,
      <<120071, 120074, 1>>, <<120077, 120084, 1>>, <<120086, 120092, 1>>,
      <<120120, 120121, 1>>, <<120123, 120126, 1>>, <<120128, 120132, 1>>,
      <<120134, 120134, 1>>, <<120138, 120144, 1>>, <<120172, 120197, 1>>,
      <<120224, 120249, 1>>, <<120276, 120301, 1>>, <<120328, 120353, 1>>,
      <<120380, 120405, 1>>, <<120432, 120457, 1>>, <<120488, 120512, 1>>,
      <<120546, 120570, 1>>, <<120604, 120628, 1>>, <<120662, 120686, 1>>,
      <<120720, 120744, 1>>, <<120778, 120778, 1>>, <<125184, 125217, 1>>,
      <<127280, 127305, 1>>, <<127312, 127337, 1>>, <<127344, 127369, 1>>>>
\* The category Lt
TitlecaseRows ==
    <<<<453, 453, 1>>, <<456, 456, 1>>, <<459, 459, 1>>, <<498, 498, 1>>,
      <<8072, 8079, 1>>, <<8088, 8095, 1>>, <<8104, 8111, 1>>,
      <<8124, 8124, 1>>, <<8140, 8140, 1>>, <<8188, 8188, 1>>>>
\* The property Case_Ignorable
CaseIgnorableRows ==
    <<<<39, 39, 1>>, <<46, 46, 1>>, <<58, 58, 1>>, <<94, 96, 2>>,
      <<168, 168, 1>>, <<173, 175, 2>>, <<180, 180, 1>>, <<183, 184, 1>>,
      <<688, 879, 1>>, <<884, 885, 1>>, <<890, 890, 1>>, <<900, 901, 1>>,
      <<903, 903, 1>>, <<1155, 1161, 1>>, <<1369, 1369, 1>>,
      <<1375, 1375, 1>>, <<1425, 1469, 1>>, <<1471, 1473, 2>>,
      <<1474, 1476, 2>>, <<1477, 1479, 2>>, <<1524, 1524, 1>>,
      <<1536, 1541, 1>>, <<1552, 1562, 1>>, <<1564, 1564, 1>>,
      <<1600, 1600, 1>>, <<1611, 1631, 1>>, <<1648, 1648, 1>>,
      <<1750, 1757, 1>>, <<1759, 1768, 1>>, <<1770, 1773, 1>>,
      <<1807, 1809, 2>>, <<1840, 1866, 1>>, <<1958, 1968, 1>>,
      <<2027, 2037, 1>>, <<2042, 2042, 1>>, <<2045, 2045, 1>>,
      <<2070, 2093, 1>>, <<2137, 2139, 1>>, <<2184, 2184, 1>>,
      <<2192, 2193, 1>>, <<2200, 2207, 1>>, <<2249, 2306, 1>>,
      <<2362, 2364, 2>>, <<2369, 2376, 1>>, <<2381, 2381, 1>>,
      <<2385, 2391, 1>>, <<2402, 2403, 1>>, <<2417, 2417, 1>>,
      <<2433, 2433, 1>>, <<2492, 2492, 1>>, <<2497, 2500, 1>>,
      <<2509, 2509, 1>>, <<2530, 2531, 1>>, <<2558, 2558, 1>>,
      <<2561, 2562, 1>>, <<2620, 2620, 1>>, <<2625, 2626, 1>>,
      <<2631, 2632, 1>>, <<2635, 2637, 1>>, <<2641, 2641, 1>>,
      <<2672, 2673, 1>>, <<2677, 2677, 1>>, <<2689, 2690, 1>>,
      <<2748, 2748, 1>>, <<2753, 2757, 1>>, <<2759, 2760, 1>>,
      <<2765, 2765, 1>>, <<2786, 2787, 1>>, <<2810, 2815, 1>>,
      <<2817, 2817, 1>>, <<2876, 2876, 1>>, <<2879, 2881, 2>>,
      <<2882, 2884, 1>>, <<2893, 2893, 1>>, <<2901, 2902, 1>>,
      <<2914, 2915, 1>>, <<2946, 2946, 1>>, <<3008, 3008, 1>>,
      <<3021, 3021, 1>>, <<3072, 3072, 1>>, <<3076, 3076, 1>>,
      <<3132, 3134, 2>>, <<3135, 3136, 1>>, <<3142, 3144, 1>>,
      <<3146, 3149, 1>>, <<3157, 3158, 1>>, <<3170, 3171, 1>>,
      <<3201, 3201, 1>>, <<3260, 3260, 1>>, <<3263, 3263, 1>>,
      <<3270, 3270, 1>>, <<3276, 3277, 1>>, <<3298, 3299, 1>>,
      <<3328, 3329, 1>>, <<3387, 3388, 1>>, <<3393, 3396, 1>>,
      <<3405, 3405, 1>>, <<3426, 3427, 1>>, <<3457, 3457, 1>>,
      <<3530, 3530, 1>>, <<3538, 3540, 1>>, <<3542, 3542, 1>>,
      <<3633, 3633, 1>>, <<3636, 3642, 1>>, <<3654, 3662, 1>>,
      <<3761, 3761, 1>>, <<3764, 3772, 1>>, <<3782, 3784, 2>>,
      <<3785, 3789, 1>>, <<3864, 3865, 1>>, <<3893, 3897, 2>>,
      <<3953, 3966, 1>>, <<3968, 3972, 1>>, <<3974, 3975, 1>>,
      <<3981, 3991, 1>>, <<3993, 4028, 1>>, <<4038, 4038, 1>>,
      <<4141, 4144, 1>>, <<4146, 4151, 1>>, <<4153, 4154, 1>>,
      <<4157, 4158, 1>>, <<4184, 4185, 1>>, <<4190, 4192, 1>>,
      <<4209, 4212, 1>>, <<4226, 4226, 1>>, <<4229, 4230, 1>>,
      <<4237, 4237, 1>>, <<4253, 4253, 1>>, <<4348, 4348, 1>>,
      <<4957, 4959, 1>>, <<5906, 5908, 1>>, <<5938, 5939, 1>>,
      <<5970, 5971, 1>>, <<6002, 6003, 1>>, <<6068, 6069, 1>>,
      <<6071, 6077, 1>>, <<6086, 6086, 1>>, <<6089, 6099, 1>>,
      <<6103, 6103, 1>>, <<6109, 6109, 1>>, <<6155, 6159, 1>>,
      <<6211, 6211, 1>>, <<6277, 6278, 1>>, <<6313, 6313, 1>>,
      <<6432, 6434, 1>>, <<6439, 6440, 1>>, <<6450, 6450, 1>>,
      <<6457, 6459, 1>>, <<6679, 6680, 1>>, <<6683, 6683, 1>>,
      <<6742, 6744, 2>>, <<6745, 6750, 1>>, <<6752, 6754, 2>>,
      <<6757, 6764, 1>>, <<6771, 6780, 1>>, <<6783, 6783, 1>>,
      <<6823, 6823, 1>>, <<6832, 6862, 1>>, <<6912, 6915, 1>>,
      <<6964, 6966, 2>>, <<6967, 6970, 1>>, <<6972, 6972, 1>>,
      <<6978, 6978, 1>>, <<7019, 7027, 1>>, <<7040, 7041, 1>>,
      <<7074, 7077, 1>>, <<7080, 7081, 1>>, <<7083, 7085, 1>>,
      <<7142, 7144, 2>>, <<7145, 7145, 1>>, <<7149, 7151, 2>>,
      <<7152, 7153, 1>>, <<7212, 7219, 1>>, <<7222, 7223, 1>>,
      <<7288, 7293, 1>>, <<7376, 7378, 1>>, <<7380, 7392, 1>>,
      <<7394, 7400, 1>>, <<7405, 7405, 1>>, <<7412, 7412, 1>>,
      <<7416, 7417, 1>>, <<7468, 7530, 1>>, <<7544, 7544, 1>>,
      <<7579, 7679, 1>>, <<8125, 8127, 2>>, <<8128, 8129, 1>>,
      <<8141, 8143, 1>>, <<8157, 8159, 1>>, <<8173, 8175, 1>>,
      <<8189, 8190, 1>>, <<8203, 8207, 1>>, <<8216, 8217, 1>>,
      <<8228, 8228, 1>>, <<8231, 8231, 1>>, <<8234, 8238, 1>>,
      <<8288, 8292, 1>>, <<8294, 8303, 1>>, <<8305, 8305, 1>>,
      <<8319, 8319, 1>>, <<8336, 8348, 1>>, <<8400, 8432, 1>>,
      <<11388, 11389, 1>>, <<11503, 11505, 1>>, <<11631, 11631, 1>>,
      <<11647, 11647, 1>>, <<11744, 11775, 1>>, <<11823, 11823, 1>>,
      <<12293, 12293, 1>>, <<12330, 12333, 1>>, <<12337, 12341, 1>>,
      <<12347, 12347, 1>>, <<12441, 12446, 1>>, <<12540, 12542, 1>>,
      <<40981, 40981, 1>>, <<42232, 42237, 1>>, <<42508, 42508, 1>>,
      <<42607, 42610, 1>>, <<42612, 42621, 1>>, <<42623, 42623, 1>>,
      <<42652, 42655, 1>>, <<42736, 42737, 1>>, <<42752, 42785, 1>>,
      <<42864, 42864, 1>>, <<42888, 42890, 1>>, <<42994, 42996, 1>>,
      <<43000, 43001, 1>>, <<43010, 43010, 1>>, <<43014, 43014, 1>>,
      <<43019, 43019, 1>>, <<43045, 43046, 1>>, <<43052, 43052, 1>>,
      <<43204, 43205, 1>>, <<43232, 43249, 1>>, <<43263, 43263, 1>>,
      <<43302, 43309, 1>>, <<43335, 43345, 1>>, <<43392, 43394, 1>>,
      <<43443, 43443, 1>>, <<43446, 43449, 1>>, <<43452, 43453, 1>>,
      <<43471, 43471, 1>>, <<43493, 43494, 1>>, <<43561, 43566, 1>>,
      <<43569, 43570, 1>>, <<43573, 43574, 1>>, <<43587, 43587, 1>>,
      <<43596, 43596, 1>>, <<43632, 43632, 1>>, <<43644, 43644, 1>>,
      <<43696, 43698, 2>>, <<43699, 43700, 1>>, <<43703, 43704, 1>>,
      <<43710, 43711, 1>>, <<43713, 43713, 1>>, <<43741, 43741, 1>>,
      <<43756, 43757, 1>>, <<43763, 43764, 1>>, <<43766, 43766, 1>>,
      <<43867, 43871, 1>>, <<43881, 43883, 1>>, <<44005, 44005, 1>>,
      <<44008, 44008, 1>>, <<44013, 44013, 1>>, <<64286, 64286, 1>>,
      <<64434, 64450, 1>>, <<65024, 65039, 1>>, <<65043, 65043, 1>>,
      <<65056, 65071, 1>>, <<65106, 65106, 1>>, <<65109, 65109, 1>>,
      <<65279, 65279, 1>>, <<65287, 65287, 1>>, <<65294, 65294, 1>>,
      <<65306, 65306, 1>>, <<65342, 65344, 2>>, <<65392, 65392, 1>>,
      <<65438, 65439, 1>>, <<65507, 65507, 1>>, <<65529, 65531, 1>>,
      <<66045, 66045, 1>>, <<66272, 66272, 1>>, <<66422, 66426, 1>>,
      <<67456, 67461, 1>>, <<67463, 67504, 1>>, <<67506, 67514, 1>>,
      <<68097, 68099, 1>>, <<68101, 68102, 1>>, <<68108, 68111, 1>>,
      <<68152, 68154, 1>>, <<68159, 68159, 1>>, <<68325, 68326, 1>>,
      <<68900, 68903, 1>>, <<69291, 69292, 1>>, <<69446, 69456, 1>>,
      <<69506, 69509, 1>>, <<69633, 69633, 1>>, <<69688, 69702, 1>>,
      <<69744, 69744, 1>>, <<69747, 69748, 1>>, <<69759, 69761, 1>>,
      <<69811, 69814, 1>>, <<69817, 69818, 1>>, <<69821, 69821, 1>>,
      <<69826, 69826, 1>>, <<69837, 69837, 1>>, <<69888, 69890, 1>>,
      <<69927, 69931, 1>>, <<69933, 69940, 1>>, <<70003, 70003, 1>>,
      <<70016, 70017, 1>>, <<70070, 70078, 1>>, <<70089, 70092, 1>>,
      <<70095, 70095, 1>>, <<70191, 70193, 1>>, <<70196, 70198, 2>>,
      <<70199, 70199, 1>>, <<70206, 70206, 1>>, <<70367, 70367, 1>>,
      <<70371, 70378, 1>>, <<70400, 70401, 1>>, <<70459, 70460, 1>>,
      <<70464, 70464, 1>>, <<70502, 70508, 1>>, <<70512, 70516, 1>>,
      <<70712, 70719, 1>>, <<70722, 70724, 1>>, <<70726, 70726, 1>>,
      <<70750, 70750, 1>>, <<70835, 70840, 1>>, <<70842, 70842, 1>>,
      <<70847, 70848, 1>>, <<70850, 70851, 1>>, <<71090, 71093, 1>>,
      <<71100, 71101, 1>>, <<71103, 71104, 1>>, <<71132, 71133, 1>>,
      <<71219, 71226, 1>>, <<71229, 71231, 2>>, <<71232, 71232, 1>>,
      <<71339, 71341, 2>>, <<71344, 71349, 1>>, <<71351, 71351, 1>>,
      <<71453, 71455, 1>>, <<71458, 71461, 1>>, <<71463, 71467, 1>>,
      <<71727, 71735, 1>>, <<71737, 71738, 1>>, <<71995, 71996, 1>>,
      <<71998, 71998, 1>>, <<72003, 72003, 1>>, <<72148, 72151, 1>>,
      <<72154, 72155, 1>>, <<72160, 72160, 1>>, <<72193, 72202, 1>>,
      <<72243, 72248, 1>>, <<72251, 72254, 1>>, <<72263, 72263, 1>>,
      <<72273, 72278, 1>>, <<72281, 72283, 1>>, <<72330, 72342, 1>>,
      <<72344, 72345, 1>>, <<72752, 72758, 1>>, <<72760, 72765, 1>>,
      <<72767, 72767, 1>>, <<72850, 72871, 1>>, <<72874, 72880, 1>>,
      <<72882, 72883, 1>>, <<72885, 72886, 1>>, <<73009, 73014, 1>>,
      <<73018, 73020, 2>>, <<73021, 73023, 2>>, <<73024, 73029, 1>>,
      <<73031, 73031, 1>>, <<73104, 73105, 1>>, <<73109, 73111, 2>>,
      <<73459, 73460, 1>>, <<78896, 78904, 1>>, <<92912, 92916, 1>>,
      <<92976, 92982, 1>>, <<92992, 92995, 1>>, <<94031, 94031, 1>>,
      <<94095, 94111, 1>>, <<94176, 94177, 1>>, <<94179, 94180, 1>>,
      <<110576, 110579, 1>>, <<110581, 110587, 1>>, <<110589, 110590, 1>>,
      <<113821, 113822, 1>>, <<113824, 113827, 1>>, <<118528, 118573, 1>>,
      <<118576, 118598, 1>>, <<119143, 119145, 1>>, <<119155, 119170, 1>>,
      <<119173, 119179, 1>>, <<119210, 119213, 1>>, <<119362, 119364, 1>>,
      <<121344, 121398, 1>>, <<121403, 121452, 1>>, <<121461, 121461, 1>>,
      <<121476, 121476, 1>>, <<121499, 121503, 1>>, <<121505, 121519, 1>>,
      <<122880, 122886, 1>>, <<122888, 122904, 1>>, <<122907, 122913, 1>>,
      <<122915, 122916, 1>>, <<122918, 122922, 1>>, <<123184, 123197, 1>>,
      <<123566, 123566, 1>>, <<123628, 123631, 1>>, <<125136, 125142, 1>>,
      <<125252, 125259, 1>>, <<127995, 127999, 1>>, <<917505, 917505, 1>>,
      <<917536, 917631, 1>>, <<917760, 917999, 1>>>>
\* The digit zero of every script of the category Nd; the digits one to
\* nine follow it.
DigitZeros ==
    {48, 1632, 1776, 1984, 2406, 2534, 2662, 2790, 2918, 3046, 3174, 3302,
     3430, 3558, 3664, 3792, 3872, 4160, 4240, 6112, 6160, 6470, 6608, 6784,
     6800, 6992, 7088, 7232, 7248, 42528, 43216, 43264, 43472, 43504, 43600,
     44016, 65296, 66720, 68912, 69734, 69872, 69942, 70096, 70384, 70736,
     70864, 71248, 71360, 71472, 71904, 72016, 72784, 73040, 73120, 92768,
     92864, 93008, 120782, 120792, 120802, 120812, 120822, 123200, 123632,
     125264, 130032}
\* The lower-case mappings
LowerRows ==
    <<<<65, 90, 1, 32>>, <<192, 214, 1, 32>>, <<216, 222, 1, 32>>,
      <<256, 302, 2, 1>>, <<306, 310, 2, 1>>, <<313, 327, 2, 1>>,
      <<330, 374, 2, 1>>, <<376, 376, 1, -121>>, <<377, 381, 2, 1>>,
      <<385, 385, 1, 210>>, <<386, 388, 2, 1>>, <<390, 390, 1, 206>>,
      <<391, 391, 1, 1>>, <<393, 394, 1, 205>>, <<395, 395, 1, 1>>,
      <<398, 398, 1, 79>>, <<399, 399, 1, 202>>, <<400, 400, 1, 203>>,
      <<401, 401, 1, 1>>, <<403, 403, 1, 205>>, <<404, 404, 1, 207>>,
      <<406, 406, 1, 211>>, <<407, 407, 1, 209>>, <<408, 408, 1, 1>>,
      <<412, 412, 1, 211>>, <<413, 413, 1, 213>>, <<415, 415, 1, 214>>,
      <<416, 420, 2, 1>>, <<422, 422, 1, 218>>, <<423, 423, 1, 1>>,
      <<425, 425, 1, 218>>, <<428, 428, 1, 1>>, <<430, 430, 1, 218>>,
      <<431, 431, 1, 1>>, <<433, 434, 1, 217>>, <<435, 437, 2, 1>>,
      <<439, 439, 1, 219>>, <<440, 440, 1, 1>>, <<444, 444, 1, 1>>,
      <<452, 452, 1, 2>>, <<453, 453, 1, 1>>, <<455, 455, 1, 2>>,
      <<456, 456, 1, 1>>, <<458, 458, 1, 2>>, <<459, 475, 2, 1>>,
      <<478, 494, 2, 1>>, <<497, 497, 1, 2>>, <<498, 500, 2, 1>>,
      <<502, 502, 1, -97>>, <<503, 503, 1, -56>>, <<504, 542, 2, 1>>,
      <<544, 544, 1, -130>>, <<546, 562, 2, 1>>, <<570, 570, 1, 10795>>,
      <<571, 571, 1, 1>>, <<573, 573, 1, -163>>, <<574, 574, 1, 10792>>,
      <<577, 577, 1, 1>>, <<579, 579, 1, -195>>, <<580, 580, 1, 69>>,
      <<581, 581, 1, 71>>, <<582, 590, 2, 1>>, <<880, 882, 2, 1>>,
      <<886, 886, 1, 1>>, <<895, 895, 1, 116>>, <<902, 902, 1, 38>>,
      <<904, 906, 1, 37>>, <<908, 908, 1, 64>>, <<910, 911, 1, 63>>,
      <<913, 929, 1, 32>>, <<931, 939, 1, 32>>, <<975, 975, 1, 8>>,
      <<984, 1006, 2, 1>>, <<1012, 1012, 1, -60>>, <<1015, 1015, 1, 1>>,
      <<1017, 1017, 1, -7>>, <<1018, 1018, 1, 1>>, <<1021, 1023, 1, -130>>,
      <<1024, 1039, 1, 80>>, <<1040, 1071, 1, 32>>, <<1120, 1152, 2, 1>>,
      <<1162, 1214, 2, 1>>, <<1216, 1216, 1, 15>>, <<1217, 1229, 2, 1>>,
      <<1232, 1326, 2, 1>>, <<1329, 1366, 1, 48>>, <<4256, 4293, 1, 7264>>,
      <<4295, 4295, 1, 7264>>, <<4301, 4301, 1, 7264>>,
      <<5024, 5103, 1, 38864>>, <<5104, 5109, 1, 8>>,
      <<7312, 7354, 1, -3008>>, <<7357, 7359, 1, -3008>>,
      <<7680, 7828, 2, 1>>, <<7838, 7838, 1, -7615>>, <<7840, 7934, 2, 1>>,
      <<7944, 7951, 1, -8>>, <<7960, 7965, 1, -8>>, <<7976, 7983, 1, -8>>,
      <<7992, 7999, 1, -8>>, <<8008, 8013, 1, -8>>, <<8025, 8031, 2, -8>>,
      <<8040, 8047, 1, -8>>, <<8072, 8079, 1, -8>>, <<8088, 8095, 1, -8>>,
      <<8104, 8111, 1, -8>>, <<8120, 8121, 1, -8>>, <<8122, 8123, 1, -74>>,
      <<8124, 8124, 1, -9>>, <<8136, 8139, 1, -86>>, <<8140, 8140, 1, -9>>,
      <<8152, 8153, 1, -8>>, <<8154, 8155, 1, -100>>, <<8168, 8169, 1, -8>>,
      <<8170, 8171, 1, -112>>, <<8172, 8172, 1, -7>>, <<8184, 8185, 1, -128>>,
      <<8186, 8187, 1, -126>>, <<8188, 8188, 1, -9>>,
      <<8486, 8486, 1, -7517>>, <<8490, 8490, 1, -8383>>,
      <<8491, 8491, 1, -8262>>, <<8498, 8498, 1, 28>>, <<8544, 8559, 1, 16>>,
      <<8579, 8579, 1, 1>>, <<9398, 9423, 1, 26>>, <<11264, 11311, 1, 48>>,
      <<11360, 11360, 1, 1>>, <<11362, 11362, 1, -10743>>,
      <<11363, 11363, 1, -3814>>, <<11364, 11364, 1, -10727>>,
      <<11367, 11371, 2, 1>>, <<11373, 11373, 1, -10780>>,
      <<11374, 11374, 1, -10749>>, <<11375, 11375, 1, -10783>>,
      <<11376, 11376, 1, -10782>>, <<11378, 11378, 1, 1>>,
      <<11381, 11381, 1, 1>>, <<11390, 11391, 1, -10815>>,
      <<11392, 11490, 2, 1>>, <<11499, 11501, 2, 1>>, <<11506, 11506, 1, 1>>,
      <<42560, 42604, 2, 1>>, <<42624, 42650, 2, 1>>, <<42786, 42798, 2, 1>>,
      <<42802, 42862, 2, 1>>, <<42873, 42875, 2, 1>>,
      <<42877, 42877, 1, -35332>>, <<42878, 42886, 2, 1>>,
      <<42891, 42891, 1, 1>>, <<42893, 42893, 1, -42280>>,
      <<42896, 42898, 2, 1>>, <<42902, 42920, 2, 1>>,
      <<42922, 42922, 1, -42308>>, <<42923, 42923, 1, -42319>>,
      <<42924, 42924, 1, -42315>>, <<42925, 42925, 1, -42305>>,
      <<42926, 42926, 1, -42308>>, <<42928, 42928, 1, -42258>>,
      <<42929, 42929, 1, -42282>>, <<42930, 42930, 1, -42261>>,
      <<42931, 42931, 1, 928>>, <<42932, 42946, 2, 1>>,
      <<42948, 42948, 1, -48>>, <<42949, 42949, 1, -42307>>,
      <<42950, 42950, 1, -35384>>, <<42951, 42953, 2, 1>>,
      <<42960, 42960, 1, 1>>, <<42966, 42968, 2, 1>>, <<42997, 42997, 1, 1>>,
      <<65313, 65338, 1, 32>>, <<66560, 66599, 1, 40>>,
      <<66736, 66771, 1, 40>>, <<66928, 66938, 1, 39>>,
      <<66940, 66954, 1, 39>>, <<66956, 66962, 1, 39>>,
      <<66964, 66965, 1, 39>>, <<68736, 68786, 1, 64>>,
      <<71840, 71871, 1, 32>>, <<93760, 93791, 1, 32>>,
      <<125184, 125217, 1, 34>>>>
LowerSpecial ==
    <<<<304, <<105, 775>>>>>>
\* The upper-case mappings
UpperRows ==
    <<<<97, 122, 1, -32>>, <<181, 181, 1, 743>>, <<224, 246, 1, -32>>,
      <<248, 254, 1, -32>>, <<255, 255, 1, 121>>, <<257, 303, 2, -1>>,
      <<305, 305, 1, -232>>, <<307, 311, 2, -1>>, <<314, 328, 2, -1>>,
      <<331, 375, 2, -1>>, <<378, 382, 2, -1>>, <<383, 383, 1, -300>>,
      <<384, 384, 1, 195>>, <<387, 389, 2, -1>>, <<392, 392, 1, -1>>,
      <<396, 396, 1, -1>>, <<402, 402, 1, -1>>, <<405, 405, 1, 97>>,
      <<409, 409, 1, -1>>, <<410, 410, 1, 163>>, <<414, 414, 1, 130>>,
      <<417, 421, 2, -1>>, <<424, 424, 1, -1>>, <<429, 429, 1, -1>>,
      <<432, 432, 1, -1>>, <<436, 438, 2, -1>>, <<441, 441, 1, -1>>,
      <<445, 445, 1, -1>>, <<447, 447, 1, 56>>, <<453, 453, 1, -1>>,
      <<454, 454, 1, -2>>, <<456, 456, 1, -1>>, <<457, 457, 1, -2>>,
      <<459, 459, 1, -1>>, <<460, 460, 1, -2>>, <<462, 476, 2, -1>>,
      <<477, 477, 1, -79>>, <<479, 495, 2, -1>>, <<498, 498, 1, -1>>,
      <<499, 499, 1, -2>>, <<501, 501, 1, -1>>, <<505, 543, 2, -1>>,
      <<547, 563, 2, -1>>, <<572, 572, 1, -1>>, <<575, 576, 1, 10815>>,
      <<578, 578, 1, -1>>, <<583, 591, 2, -1>>, <<592, 592, 1, 10783>>,
      <<593, 593, 1, 10780>>, <<594, 594, 1, 10782>>, <<595, 595, 1, -210>>,
      <<596, 596, 1, -206>>, <<598, 599, 1, -205>>, <<601, 601, 1, -202>>,
      <<603, 603, 1, -203>>, <<604, 604, 1, 42319>>, <<608, 608, 1, -205>>,
      <<609, 609, 1, 42315>>, <<611, 611, 1, -207>>, <<613, 613, 1, 42280>>,
      <<614, 614, 1, 42308>>, <<616, 616, 1, -209>>, <<617, 617, 1, -211>>,
      <<618, 618, 1, 42308>>, <<619, 619, 1, 10743>>, <<620, 620, 1, 42305>>,
      <<623, 623, 1, -211>>, <<625, 625, 1, 10749>>, <<626, 626, 1, -213>>,
      <<629, 629, 1, -214>>, <<637, 637, 1, 10727>>, <<640, 640, 1, -218>>,
      <<642, 642, 1, 42307>>, <<643, 643, 1, -218>>, <<647, 647, 1, 42282>>,
      <<648, 648, 1, -218>>, <<649, 649, 1, -69>>, <<650, 651, 1, -217>>,
      <<652, 652, 1, -71>>, <<658, 658, 1, -219>>, <<669, 669, 1, 42261>>,
      <<670, 670, 1, 42258>>, <<837, 837, 1, 84>>, <<881, 883, 2, -1>>,
      <<887, 887, 1, -1>>, <<891, 893, 1, 130>>, <<940, 940, 1, -38>>,
      <<941, 943, 1, -37>>, <<945, 961, 1, -32>>, <<962, 962, 1, -31>>,
      <<963, 971, 1, -32>>, <<972, 972, 1, -64>>, <<973, 974, 1, -63>>,
      <<976, 976, 1, -62>>, <<977, 977, 1, -57>>, <<981, 981, 1, -47>>,
      <<982, 982, 1, -54>>, <<983, 983, 1, -8>>, <<985, 1007, 2, -1>>,
      <<1008, 1008, 1, -86>>, <<1009, 1009, 1, -80>>, <<1010, 1010, 1, 7>>,
      <<1011, 1011, 1, -116>>, <<1013, 1013, 1, -96>>, <<1016, 1016, 1, -1>>,
      <<1019, 1019, 1, -1>>, <<1072, 1103, 1, -32>>, <<1104, 1119, 1, -80>>,
      <<1121, 1153, 2, -1>>, <<1163, 1215, 2, -1>>, <<1218, 1230, 2, -1>>,
      <<1231, 1231, 1, -15>>, <<1233, 1327, 2, -1>>, <<1377, 1414, 1, -48>>,
      <<4304, 4346, 1, 3008>>, <<4349, 4351, 1, 3008>>, <<5112, 5117, 1, -8>>,
      <<7296, 7296, 1, -6254>>, <<7297, 7297, 1, -6253>>,
      <<7298, 7298, 1, -6244>>, <<7299, 7300, 1, -6242>>,
      <<7301, 7301, 1, -6243>>, <<7302, 7302, 1, -6236>>,
      <<7303, 7303, 1, -6181>>, <<7304, 7304, 1, 35266>>,
      <<7545, 7545, 1, 35332>>, <<7549, 7549, 1, 3814>>,
      <<7566, 7566, 1, 35384>>, <<7681, 7829, 2, -1>>, <<7835, 7835, 1, -59>>,
      <<7841, 7935, 2, -1>>, <<7936, 7943, 1, 8>>, <<7952, 7957, 1, 8>>,
      <<7968, 7975, 1, 8>>, <<7984, 7991, 1, 8>>, <<8000, 8005, 1, 8>>,
      <<8017, 8023, 2, 8>>, <<8032, 8039, 1, 8>>, <<8048, 8049, 1, 74>>,
      <<8050, 8053, 1, 86>>, <<8054, 8055, 1, 100>>, <<8056, 8057, 1, 128>>,
      <<8058, 8059, 1, 112>>, <<8060, 8061, 1, 126>>, <<8112, 8113, 1, 8>>,
      <<8126, 8126, 1, -7205>>, <<8144, 8145, 1, 8>>, <<8160, 8161, 1, 8>>,
      <<8165, 8165, 1, 7>>, <<8526, 8526, 1, -28>>, <<8560, 8575, 1, -16>>,
      <<8580, 8580, 1, -1>>, <<9424, 9449, 1, -26>>, <<11312, 11359, 1, -48>>,
      <<11361, 11361, 1, -1>>, <<11365, 11365, 1, -10795>>,
      <<11366, 11366, 1, -10792>>, <<11368, 11372, 2, -1>>,
      <<11379, 11379, 1, -1>>, <<11382, 11382, 1, -1>>,
      <<11393, 11491, 2, -1>>, <<11500, 11502, 2, -1>>,
      <<11507, 11507, 1, -1>>, <<11520, 11557, 1, -7264>>,
      <<11559, 11559, 1, -7264>>, <<11565, 11565, 1, -7264>>,
      <<42561, 42605, 2, -1>>, <<42625, 42651, 2, -1>>,
      <<42787, 42799, 2, -1>>, <<42803, 42863, 2, -1>>,
      <<42874, 42876, 2, -1>>, <<42879, 42887, 2, -1>>,
      <<42892, 42892, 1, -1>>, <<42897, 42899, 2, -1>>,
      <<42900, 42900, 1, 48>>, <<42903, 42921, 2, -1>>,
      <<42933, 42947, 2, -1>>, <<42952, 42954, 2, -1>>,
      <<42961, 42961, 1, -1>>, <<42967, 42969, 2, -1>>,
      <<42998, 42998, 1, -1>>, <<43859, 43859, 1, -928>>,
      <<43888, 43967, 1, -38864>>, <<65345, 65370, 1, -32>>,
      <<66600, 66639, 1, -40>>, <<66776, 66811, 1, -40>>,
      <<66967, 66977, 1, -39>>, <<66979, 66993, 1, -39>>,
      <<66995, 67001, 1, -39>>, <<67003, 67004, 1, -39>>,
      <<68800, 68850, 1, -64>>, <<71872, 71903, 1, -32>>,
      <<93792, 93823, 1, -32>>, <<125218, 125251, 1, -34>>>>
UpperSpecial ==
    <<<<223, <<83, 83>>>>, <<329, <<700, 78>>>>, <<496, <<74, 780>>>>,
      <<912, <<921, 776, 769>>>>, <<944, <<933, 776, 769>>>>,
      <<1415, <<1333, 1362>>>>, <<7830, <<72, 817>>>>, <<7831, <<84, 776>>>>,
      <<7832, <<87, 778>>>>, <<7833, <<89, 778>>>>, <<7834, <<65, 702>>>>,
      <<8016, <<933, 787>>>>, <<8018, <<933, 787, 768>>>>,
      <<8020, <<933, 787, 769>>>>, <<8022, <<933, 787, 834>>>>,
      <<8064, <<7944, 921>>>>, <<8065, <<7945, 921>>>>,
      <<8066, <<7946, 921>>>>, <<8067, <<7947, 921>>>>,
      <<8068, <<7948, 921>>>>, <<8069, <<7949, 921>>>>,
      <<8070, <<7950, 921>>>>, <<8071, <<7951, 921>>>>,
      <<8072, <<7944, 921>>>>, <<8073, <<7945, 921>>>>,
      <<8074, <<7946, 921>>>>, <<8075, <<7947, 921>>>>,
      <<8076, <<7948, 921>>>>, <<8077, <<7949, 921>>>>,
      <<8078, <<7950, 921>>>>, <<8079, <<7951, 921>>>>,
      <<8080, <<7976, 921>>>>, <<8081, <<7977, 921>>>>,
      <<8082, <<7978, 921>>>>, <<8083, <<7979, 921>>>>,
      <<8084, <<7980, 921>>>>, <<8085, <<7981, 921>>>>,
      <<8086, <<7982, 921>>>>, <<8087, <<7983, 921>>>>,
      <<8088, <<7976, 921>>>>, <<8089, <<7977, 921>>>>,
      <<8090, <<7978, 921>>>>, <<8091, <<7979, 921>>>>,
      <<8092, <<7980, 921>>>>, <<8093, <<7981, 921>>>>,
      <<8094, <<7982, 921>>>>, <<8095, <<7983, 921>>>>,
      <<8096, <<8040, 921>>>>, <<8097, <<8041, 921>>>>,
      <<8098, <<8042, 921>>>>, <<8099, <<8043, 921>>>>,
      <<8100, <<8044, 921>>>>, <<8101, <<8045, 921>>>>,
      <<8102, <<8046, 921>>>>, <<8103, <<8047, 921>>>>,
      <<8104, <<8040, 921>>>>, <<8105, <<8041, 921>>>>,
      <<8106, <<8042, 921>>>>, <<8107, <<8043, 921>>>>,
      <<8108, <<8044, 921>>>>, <<8109, <<8045, 921>>>>,
      <<8110, <<8046, 921>>>>, <<8111, <<8047, 921>>>>,
      <<8114, <<8122, 921>>>>, <<8115, <<913, 921>>>>, <<8116, <<902, 921>>>>,
      <<8118, <<913, 834>>>>, <<8119, <<913, 834, 921>>>>,
      <<8124, <<913, 921>>>>, <<8130, <<8138, 921>>>>, <<8131, <<919, 921>>>>,
      <<8132, <<905, 921>>>>, <<8134, <<919, 834>>>>,
      <<8135, <<919, 834, 921>>>>, <<8140, <<919, 921>>>>,
      <<8146, <<921, 776, 768>>>>, <<8147, <<921, 776, 769>>>>,
      <<8150, <<921, 834>>>>, <<8151, <<921, 776, 834>>>>,
      <<8162, <<933, 776, 768>>>>, <<8163, <<933, 776, 769>>>>,
      <<8164, <<929, 787>>>>, <<8166, <<933, 834>>>>,
      <<8167, <<933, 776, 834>>>>, <<8178, <<8186, 921>>>>,
      <<8179, <<937, 921>>>>, <<8180, <<911, 921>>>>, <<8182, <<937, 834>>>>,
      <<8183, <<937, 834, 921>>>>, <<8188, <<937, 921>>>>,
      <<64256, <<70, 70>>>>, <<64257, <<70, 73>>>>, <<64258, <<70, 76>>>>,
      <<64259, <<70, 70, 73>>>>, <<64260, <<70, 70, 76>>>>,
      <<64261, <<83, 84>>>>, <<64262, <<83, 84>>>>, <<64275, <<1348, 1350>>>>,
      <<64276, <<1348, 1333>>>>, <<64277, <<1348, 1339>>>>,
      <<64278, <<1358, 1350>>>>, <<64279, <<1348, 1341>>>>>>
\* The title-case mappings that are not the upper-case mapping
TitleRows ==
    <<<<452, 452, 1, 1>>, <<453, 453, 1, 0>>, <<454, 454, 1, -1>>,
      <<455, 455, 1, 1>>, <<456, 456, 1, 0>>, <<457, 457, 1, -1>>,
      <<458, 458, 1, 1>>, <<459, 459, 1, 0>>, <<460, 460, 1, -1>>,
      <<497, 497, 1, 1>>, <<498, 498, 1, 0>>, <<499, 499, 1, -1>>,
      <<4304, 4346, 1, 0>>, <<4349, 4351, 1, 0>>, <<8064, 8071, 1, 8>>,
      <<8072, 8079, 1, 0>>, <<8080, 8087, 1, 8>>, <<8088, 8095, 1, 0>>,
      <<8096, 8103, 1, 8>>, <<8104, 8111, 1, 0>>, <<8115, 8115, 1, 9>>,
      <<8124, 8124, 1, 0>>, <<8131, 8131, 1, 9>>, <<8140, 8140, 1, 0>>,
      <<8179, 8179, 1, 9>>, <<8188, 8188, 1, 0>>>>
TitleSpecial ==
    <<<<223, <<83, 115>>>>, <<1415, <<1333, 1410>>>>, <<8114, <<8122, 837>>>>,
      <<8116, <<902, 837>>>>, <<8119, <<913, 834, 837>>>>,
      <<8130, <<8138, 837>>>>, <<8132, <<905, 837>>>>,
      <<8135, <<919, 834, 837>>>>, <<8178, <<8186, 837>>>>,
      <<8180, <<911, 837>>>>, <<8183, <<937, 834, 837>>>>,
      <<64256, <<70, 102>>>>, <<64257, <<70, 105>>>>, <<64258, <<70, 108>>>>,
      <<64259, <<70, 102, 105>>>>, <<64260, <<70, 102, 108>>>>,
      <<64261, <<83, 116>>>>, <<64262, <<83, 116>>>>,
      <<64275, <<1348, 1398>>>>, <<64276, <<1348, 1381>>>>,
      <<64277, <<1348, 1387>>>>, <<64278, <<1358, 1398>>>>,
      <<64279, <<1348, 1389>>>>>>

\* The code points of a row, and the characters of a table of rows
Row(r) == {n \in r[1]..r[2] : (n - r[1]) % r[3] = 0}
Chars(rows) == {chr(n) : n \in UNION {Row(rows[i]) : i \in 1..Len(rows)}}

\* The function that a set of <<argument, value>> pairs is
FunctionOf(P) == [c \in {p[1] : p \in P} |-> (CHOOSE p \in P : p[1] = c)[2]]
NoMapping == [c \in {} |-> <<>>]
RowMapping(r) == FunctionOf({<<chr(n), <<chr(n + r[4])>>>> : n \in Row(r)})
RECURSIVE RowsMapping(_, _, _)
RowsMapping(rows, i, j) ==
    IF i > j THEN NoMapping
    ELSE IF i = j THEN RowMapping(rows[i])
    ELSE RowsMapping(rows, i, (i + j) \div 2)
         @@ RowsMapping(rows, ((i + j) \div 2) + 1, j)
SpecialMapping(rows) ==
    FunctionOf({<<chr(rows[i][1]),
                  [k \in 1..Len(rows[i][2]) |-> chr(rows[i][2][k])]>> :
                i \in 1..Len(rows)})
Mapping(rows, special) == SpecialMapping(special) @@ RowsMapping(rows, 1, Len(rows))

\* The characters str.isspace() holds of.
Whitespace == Chars(SpaceRows)
SeparatorControls == {chr(28), chr(29), chr(30), chr(31)}

\* s.lstrip()
RECURSIVE lstrip(_)
lstrip(s) ==
    IF s # <<>> /\ Head(s) \in Whitespace THEN lstrip(Tail(s)) ELSE s

\* The case properties, and the case mappings of the characters that have
\* one (the full mappings: a character can map to as many as three).
Lowercase == Chars(LowercaseRows)
Uppercase == Chars(UppercaseRows)
Titlecase == Chars(TitlecaseRows)
Cased == Lowercase \cup Uppercase \cup Titlecase
CaseIgnorable == Chars(CaseIgnorableRows)
ToLowerFull == Mapping(LowerRows, LowerSpecial)
ToUpperFull == Mapping(UpperRows, UpperSpecial)
ToTitleFull == Mapping(TitleRows, TitleSpecial) @@ ToUpperFull
HasLower == DOMAIN ToLowerFull
HasUpper == DOMAIN ToUpperFull
HasTitle == DOMAIN ToTitleFull

\* c.islower() / c.isupper() of one character, and whether str.title() and
\* str.lower() take it for a cased one
IsLower(c) == c \in Lowercase
IsUpper(c) == c \in Uppercase
IsCased(c) == c \in Cased

\* c.lower() / c.upper() / c.title() of one character standing alone
LowerChar(c) == IF c \in HasLower THEN ToLowerFull[c] ELSE <<c>>
UpperChar(c) == IF c \in HasUpper THEN ToUpperFull[c] ELSE <<c>>
TitleChar(c) == IF c \in HasTitle THEN ToTitleFull[c] ELSE <<c>>
\* The capital sigma at position i of s is lowered to the final sigma when a
\* cased character stands before it and none after it, case-ignorable
\* characters in between not counting.
CasedBefore(s, i) ==
    \E j \in 1..(i - 1) :
        /\ IsCased(s[j]) /\ s[j] \notin CaseIgnorable
        /\ \A k \in (j + 1)..(i - 1) : s[k] \in CaseIgnorable
CasedAfter(s, i) ==
    \E j \in (i + 1)..Len(s) :
        /\ IsCased(s[j]) /\ s[j] \notin CaseIgnorable
        /\ \A k \in (i + 1)..(j - 1) : s[k] \in CaseIgnorable
FinalSigma(s, i) == CasedBefore(s, i) /\ ~CasedAfter(s, i)

\* The lower case of the character at position i of s
LowerAt(s, i) ==
    IF s[i] = "\\u03a3" /\ FinalSigma(s, i) THEN <<"\\u03c2">>
    ELSE LowerChar(s[i])

\* str.title() at position i: a character is title-cased when it follows an
\* uncased character (or starts the string) and lower-cased otherwise.
TitleAt(s, i) ==
    IF i > 1 /\ IsCased(s[i - 1]) THEN LowerAt(s, i) ELSE TitleChar(s[i])

\* s.lower() / s.upper() / s.title(), from position i on
RECURSIVE LowerFrom(_, _)
LowerFrom(s, i) ==
    IF i > Len(s) THEN <<>> ELSE LowerAt(s, i) \o LowerFrom(s, i + 1)
RECURSIVE UpperFrom(_, _)
UpperFrom(s, i) ==
    IF i > Len(s) THEN <<>> ELSE UpperChar(s[i]) \o UpperFrom(s, i + 1)
RECURSIVE TitleFrom(_, _)
TitleFrom(s, i) ==
    IF i > Len(s) THEN <<>> ELSE TitleAt(s, i) \o TitleFrom(s, i + 1)
lower(s) == LowerFrom(s, 1)
upper(s) == UpperFrom(s, 1)
title(s) == TitleFrom(s, 1)

\* The decimal digits (category Nd) and their values
Digits == <<"0","1","2","3","4","5","6","7","8","9">>
DecimalDigit == FunctionOf({<<chr(z + d), d>> : z \in DigitZeros, d \in 0..9})
DecimalDigits == DOMAIN DecimalDigit
IsDigit(c) == c \in DecimalDigits
DigitVal(c) == DecimalDigit[c]

(***************************************************************************)
(* int                                                                     *)
(***************************************************************************)
\* A Python int has no largest value.  It is held as its sign and its
\* decimal digits, the first digit not zero (no digit at all for zero):
\* [neg |-> BOOLEAN, digits |-> <<d1, ..., dn>>].  Small(n) is the integer
\* it is when it has at most WordDigits digits.
WordDigits == 9
PyInt(neg, v) == [neg |-> neg /\ v # <<>>, digits |-> v]
Fits(n) == Len(n.digits) <= WordDigits
RECURSIVE DecimalValue(_)
DecimalValue(v) ==
    IF v = <<>> THEN 0
    ELSE 10 * DecimalValue(SubSeq(v, 1, Len(v) - 1)) + v[Len(v)]
Small(n) == IF n.neg THEN 0 - DecimalValue(n.digits) ELSE DecimalValue(n.digits)

\* sys.maxsize of a 64-bit build, 2^63 - 1, as decimal digits
sys_maxsize == <<9,2,2,3,3,7,2,0,3,6,8,5,4,7,7,5,8,0,7>>

\* sys.get_int_max_str_digits(): int() raises ValueError for a literal of
\* more digits
int_max_str_digits == 4300

\* Digits without their leading zeros
Significant(v) ==
    IF \A i \in 1..Len(v) : v[i] = 0 THEN <<>>
    ELSE SubSeq(v, CHOOSE i \in 1..Len(v) :
                       v[i] # 0 /\ \A j \in 1..(i - 1) : v[j] = 0,
                Len(v))

\* The digits of m >= 0
RECURSIVE DigitsOf(_)
DigitsOf(m) ==
    IF m = 0 THEN <<>> ELSE DigitsOf(m \div 10) \o <<m % 10>>

\* The digits of d + m and of d - m, for an integer m with 0 <= m (and
\* m <= d for the difference)
RECURSIVE BigPlus(_, _)
BigPlus(d, m) ==
    IF d = <<>> THEN DigitsOf(m)
    ELSE BigPlus(SubSeq(d, 1, Len(d) - 1), (d[Len(d)] + m) \div 10)
         \o <<(d[Len(d)] + m) % 10>>
RECURSIVE Borrowed(_, _)
Borrowed(d, m) ==
    IF d = <<>> THEN <<>>
    ELSE Borrowed(SubSeq(d, 1, Len(d) - 1),
                  (m \div 10) + (IF d[Len(d)] < m % 10 THEN 1 ELSE 0))
         \o <<(d[Len(d)] + 10 - (m % 10)) % 10>>
BigMinus(d, m) == Significant(Borrowed(d, m))

\* a < b for digits without leading zeros
BigLess(a, b) ==
    \/ Len(a) < Len(b)
    \/ /\ Len(a) = Len(b)
       /\ \E i \in 1..Len(a) : a[i] < b[i] /\ \A j \in 1..(i - 1) : a[j] = b[j]

\* int(s) in base 10.  The literal may stand between whitespace (all of
\* Whitespace but the separators 0x1c..0x1f), may carry one sign, and is a
\* run of decimal digits in which single underscores may separate digits.
IntSpace == Whitespace \ SeparatorControls
RECURSIVE rstripInt(_)
rstripInt(s) ==
    IF s # <<>> /\ s[Len(s)] \in IntSpace
    THEN rstripInt(SubSeq(s, 1, Len(s) - 1)) ELSE s
RECURSIVE lstripInt(_)
lstripInt(s) ==
    IF s # <<>> /\ Head(s) \in IntSpace THEN lstripInt(Tail(s)) ELSE s
IntLiteral(s) == rstripInt(lstripInt(s))
IntSigned(s) == s # <<>> /\ Head(s) \in {"+", "-"}
IntDigits(s) == IF IntSigned(s) THEN Tail(s) ELSE s
\* the digits of a literal are well formed
IsDigitRun(d) ==
    /\ d # <<>>
    /\ \A i \in 1..Len(d) : IsDigit(d[i]) \/ d[i] = "_"
    /\ IsDigit(d[1]) /\ IsDigit(d[Len(d)])
    /\ \A i \in 1..(Len(d) - 1) : ~(d[i] = "_" /\ d[i + 1] = "_")
\* the digits of a well-formed run as numbers, the underscores left out
DigitRun(d) == SelectSeq(d, LAMBDA c : c # "_")
DigitValues(d) == [i \in 1..Len(d) |-> DigitVal(d[i])]
IntValue(lit) ==
    PyInt(lit[1] = "-", Significant(DigitValues(DigitRun(IntDigits(lit)))))
\* int(s) as a function of the text: whether it returns a value, and its
\* value or the ValueError it raises
IntParses[s \in Seq(STRING)] ==
    /\ IsDigitRun(IntDigits(IntLiteral(s)))
    /\ Len(DigitRun(IntDigits(IntLiteral(s)))) <= int_max_str_digits
IntOf[s \in Seq(STRING)] ==
    IF IntParses[s] THEN IntValue(IntLiteral(s)) ELSE "ValueError"
\* int(s) returns a value
IsDecimal(s) == IntParses[s]
int(s) == IntOf[s]

(***************************************************************************)
(* bytes and UTF-8                                                         *)
(***************************************************************************)
\* The bytes from 0x80 on, and the value of a byte and the byte of a value
HighByteSet == {chr(n) : n \in 128..255}
ByteVal(b) == ord(b)
ByteOf(n) == chr(n)

\* B_ff is the byte 0xff, which no UTF-8 text holds
B_ff == "\\xff"

\* The number of bytes of the UTF-8 sequence that the byte b begins: 1 for
\* ASCII, 0 for a byte that begins none (0x80..0xc1, 0xf5..0xff).
Utf8Len(b) ==
    IF b \notin HighByteSet THEN 1
    ELSE IF ByteVal(b) < 194 THEN 0
    ELSE IF ByteVal(b) < 224 THEN 2
    ELSE IF ByteVal(b) < 240 THEN 3
    ELSE IF ByteVal(b) < 245 THEN 4
    ELSE 0

\* b[i] is a continuation byte with a value in lo..hi
Utf8Cont(b, i, lo, hi) ==
    /\ i <= Len(b) /\ b[i] \in HighByteSet
    /\ lo <= ByteVal(b[i]) /\ ByteVal(b[i]) <= hi

\* A well-formed sequence of n bytes begins at b[i]: no overlong form, no
\* surrogate, nothing above U+10FFFF.
Utf8Valid(b, i, n) ==
    /\ n # 0
    /\ n >= 2 =>
          Utf8Cont(b, i + 1,
                   IF b[i] = "\\xe0" THEN 160 ELSE IF b[i] = "\\xf0" THEN 144 ELSE 128,
                   IF b[i] = "\\xed" THEN 159 ELSE IF b[i] = "\\xf4" THEN 143 ELSE 191)
    /\ n >= 3 => Utf8Cont(b, i + 2, 128, 191)
    /\ n >= 4 => Utf8Cont(b, i + 3, 128, 191)

\* The code point of the well-formed sequence of n >= 2 bytes at b[i]
Utf8CodePoint(b, i, n) ==
    IF n = 2 THEN (ByteVal(b[i]) - 192) * 64 + (ByteVal(b[i + 1]) - 128)
    ELSE IF n = 3
    THEN (ByteVal(b[i]) - 224) * 4096 + (ByteVal(b[i + 1]) - 128) * 64
         + (ByteVal(b[i + 2]) - 128)
    ELSE (ByteVal(b[i]) - 240) * 262144 + (ByteVal(b[i + 1]) - 128) * 4096
         + (ByteVal(b[i + 2]) - 128) * 64 + (ByteVal(b[i + 3]) - 128)

\* bytes.decode(): whether b is UTF-8, and the text it is then.  The decoder
\* reads one well-formed sequence after another from the first byte on; that
\* is, every byte that is no continuation byte begins a well-formed sequence
\* and every continuation byte lies in the sequence of the nearest such byte
\* before it.  The text has one character for each sequence, in order.
Utf8Lead(b, i) == ~Utf8Cont(b, i, 128, 191)
Decodes(b) ==
    \A i \in 1..Len(b) :
        IF Utf8Lead(b, i) THEN Utf8Valid(b, i, Utf8Len(b[i]))
        ELSE \E j \in 1..(i - 1) :
                 /\ i - j <= 3 /\ Utf8Lead(b, j) /\ i < j + Utf8Len(b[j])
                 /\ \A k \in (j + 1)..(i - 1) : ~Utf8Lead(b, k)
DecodeAt(b, i) ==
    IF ~Utf8Lead(b, i) THEN <<>>
    ELSE IF Utf8Len(b[i]) = 1 THEN <<b[i]>>
    ELSE <<chr(Utf8CodePoint(b, i, Utf8Len(b[i])))>>
RECURSIVE DecodeFrom(_, _, _)
DecodeFrom(b, i, j) ==
    IF i > j THEN <<>>
    ELSE IF i = j THEN DecodeAt(b, i)
    ELSE DecodeFrom(b, i, (i + j) \div 2) \o DecodeFrom(b, ((i + j) \div 2) + 1, j)
decode(b) == DecodeFrom(b, 1, Len(b))

\* chr(n).encode() for n >= 128
Utf8(n) ==
    IF n < 2048 THEN <<ByteOf(192 + (n \div 64)), ByteOf(128 + (n % 64))>>
    ELSE IF n < 65536
    THEN <<ByteOf(224 + (n \div 4096)), ByteOf(128 + ((n \div 64) % 64)),
           ByteOf(128 + (n % 64))>>
    ELSE <<ByteOf(240 + (n \div 262144)), ByteOf(128 + ((n \div 4096) % 64)),
           ByteOf(128 + ((n \div 64) % 64)), ByteOf(128 + (n % 64))>>

\* str.encode().  (The text that reaches it here was decoded or is ASCII, so
\* that it holds no surrogate and the call cannot fail.)
EncodeAt(c) == IF ord(c) < 128 THEN <<c>> ELSE Utf8(ord(c))
RECURSIVE EncodeFrom(_, _, _)
EncodeFrom(s, i, j) ==
    IF i > j THEN <<>>
    ELSE IF i = j THEN EncodeAt(s[i])
    ELSE EncodeFrom(s, i, (i + j) \div 2) \o EncodeFrom(s, ((i + j) \div 2) + 1, j)
encode(s) == EncodeFrom(s, 1, Len(s))

(***************************************************************************)
(* String literals                                                         *)
(***************************************************************************)
CRLF     == <<"\r", "\n">>
CRLFCRLF == <<"\r", "\n", "\r", "\n">>
SP       == <<" ">>
COLON    == <<":">>
S_GET     == <<"G","E","T">>
S_HEAD    == <<"H","E","A","D">>
S_POST    == <<"P","O","S","T">>
S_PUT     == <<"P","U","T">>
S_DELETE  == <<"D","E","L","E","T","E">>
S_PATCH   == <<"P","A","T","C","H">>
S_OPTIONS == <<"O","P","T","I","O","N","S">>
S_HTTP    == <<"H","T","T","P","/">>
S_Host           == <<"H","o","s","t">>
S_Content_Length == <<"C","o","n","t","e","n","t","-","L","e","n","g","t","h">>
S_Content_Type   == <<"C","o","n","t","e","n","t","-","T","y","p","e">>

(***************************************************************************)
(* req_line_re                                                             *)
(***************************************************************************)
ReqMethods  == {S_GET, S_HEAD, S_POST, S_PUT, S_DELETE, S_PATCH, S_OPTIONS}
ReqVersions == {<<"1",".","0">>, <<"1",".","1">>, <<"2",".","0">>, <<"3",".","0">>}

\* The 1-based position just after the longest run of characters outside
\* `excl` that starts at position i (a greedy negated character class).
RECURSIVE RunEnd(_, _, _)
RunEnd(s, i, excl) ==
    IF i <= Len(s) /\ s[i] \notin excl THEN RunEnd(s, i + 1, excl) ELSE i

NoMatch == [ok |-> FALSE, cmd |-> <<>>, path |-> <<>>, args |-> <<>>, httpver |-> <<>>]

\* `$`: the end of the string, or just before one trailing newline.
AtEnd(line, e) ==
    \/ e = Len(line) + 1
    \/ e = Len(line) /\ line[e] = "\n"

\* ' HTTP/(?P<httpver>...)$' at position p3; the groups of the match.
MatchVersion(line, cmd, p1, p3, vers) ==
    IF vers = {} THEN NoMatch
    ELSE [ok |-> TRUE, cmd |-> cmd,
          path |-> SubSeq(line, Len(cmd) + 2, p1 - 1),
          args |-> SubSeq(line, p1, p3 - 1),
          httpver |-> CHOOSE v \in vers : TRUE]

\* '(?P<args>\?[^ ]+)?' at position p1: p2 is where the greedy run after a
\* '?' ends; the group takes part only if it holds a character after '?'.
MatchArgs(line, cmd, p1, p2) ==
    MatchVersion(line, cmd, p1, IF p2 > p1 + 1 THEN p2 ELSE p1,
        {v \in ReqVersions :
            /\ StartsWithAt(line, SP \o S_HTTP \o v,
                            IF p2 > p1 + 1 THEN p2 ELSE p1)
            /\ AtEnd(line, (IF p2 > p1 + 1 THEN p2 ELSE p1)
                           + Len(SP \o S_HTTP \o v))})

\* '(?P<path>/[^? ]*)' ended at position p1
MatchPath(line, cmd, p1) ==
    MatchArgs(line, cmd, p1,
        IF p1 <= Len(line) /\ line[p1] = "?"
        THEN RunEnd(line, p1 + 1, {" "}) ELSE p1)

\* '(?P<cmd>...) ' matched one of cmds (at most one can)
MatchCmd(line, cmds) ==
    IF cmds = {} THEN NoMatch
    ELSE IF ~StartsWithAt(line, <<"/">>, Len(CHOOSE m \in cmds : TRUE) + 2)
    THEN NoMatch
    ELSE MatchPath(line, CHOOSE m \in cmds : TRUE,
             RunEnd(line, Len(CHOOSE m \in cmds : TRUE) + 3, {"?", " "}))

\* req_line_re.match(line): ^(cmd) (/[^? ]*)(\?[^ ]+)? HTTP/(httpver)$
req_line_re(line) ==
    MatchCmd(line, {m \in ReqMethods : StartsWithAt(line, m \o SP, 1)})

\* float(m['httpver']) for the four literals the pattern admits, in tenths.
float10(v) == 10 * DigitVal(v[1]) + DigitVal(v[3])

(***************************************************************************)
(* Optional values and dictionaries                                        *)
(***************************************************************************)
\* An Optional is a sequence of length 0 (None) or 1.
None    == <<>>
Some(v) == <<v>>

\* A dict is a function; d[k] = v adds or overwrites one key.
EmptyDict == [k \in {} |-> <<>>]
DictSet(d, k, v) == [j \in (DOMAIN d) \cup {k} |-> IF j = k THEN v ELSE d[j]]

\* CaseInsensitiveDict: the dict itself (d) and keystore, which maps the
\* lower-cased key to the casing it was last stored under.
EmptyCID == [keystore |-> EmptyDict, d |-> EmptyDict]

\* CaseInsensitiveDict.__setitem__
CID_setitem(h, k, v) ==
    [keystore |-> DictSet(h.keystore, lower(k), k), d |-> DictSet(h.d, k, v)]

\* The key that __getitem__ / __contains__ / get look up for k.
CID_stored(h, k, low) ==
    IF low \in DOMAIN h.keystore THEN h.keystore[low] ELSE k
\* (the lower case of the header names that read, handle and dispatch look
\* up is computed once and kept)
LookedUp == {S_Host, S_Content_Length, S_Content_Type}
LoweredKeys == [k \in LookedUp |-> lower(k)]
CID_key(h, k) ==
    CID_stored(h, k, IF k \in LookedUp THEN LoweredKeys[k] ELSE lower(k))

\* CaseInsensitiveDict.__contains__
CID_contains(h, k) == CID_key(h, k) \in DOMAIN h.d

\* CaseInsensitiveDict.__getitem__ (called only where the key is present)
CID_getitem(h, k) == h.d[CID_key(h, k)]

\* CaseInsensitiveDict.get(k, failobj), as an Optional with failobj = None
CID_get(h, k) == IF CID_contains(h, k) THEN Some(CID_getitem(h, k)) ELSE None

(***************************************************************************)
(* Connection: request side                                                *)
(***************************************************************************)
\* Connection.__init__ ; httpver is kept in tenths (0.0 -> 0, 1.1 -> 11).
NewConnection ==
    [headers |-> EmptyCID, body |-> None, cmd |-> <<>>, path |-> <<>>,
     httpver |-> 0, args |-> EmptyDict, multipart_args |-> EmptyDict,
     files |-> EmptyDict, resp_code |-> 200, resp_headers |-> <<>>]

\* The header loop of parse_headers: stops at the first line without ':'
\* and reports whether every line was taken.
RECURSIVE ParseHeaderLines(_, _)
ParseHeaderLine(h, lines, header) ==
    IF Len(header) # 2 THEN [headers |-> h, ok |-> FALSE]
    ELSE ParseHeaderLines(CID_setitem(h, title(header[1]), lstrip(header[2])),
                          Tail(lines))
ParseHeaderLines(h, lines) ==
    IF lines = <<>> THEN [headers |-> h, ok |-> TRUE]
    ELSE ParseHeaderLine(h, lines, split1(Head(lines), COLON))

\* The url-argument loop of parse_headers: stops at the first parameter
\* without '='.
RECURSIVE ParseArgs(_, _)
ParseArg(a, params, param) ==
    IF Len(param) # 2 THEN a
    ELSE ParseArgs(DictSet(a, param[1], param[2]), Tail(params))
ParseArgs(a, params) ==
    IF params = <<>> THEN a
    ELSE ParseArg(a, params, split1(Head(params), <<"=">>))

\* parse_headers after the header loop (hs is its result)
ParseHeadersEnd(conn, m, hs) ==
    IF ~hs.ok \/ m.args = <<>> THEN [conn EXCEPT !.headers = hs.headers]
    ELSE [conn EXCEPT !.headers = hs.headers,
                      !.args = ParseArgs(@, split(SliceFrom(m.args, 1), <<"&">>))]

\* parse_headers from the request-line check on (m is the match)
ParseRequestLine(conn, data, delim, m) ==
    IF ~m.ok THEN conn
    ELSE ParseHeadersEnd(
             [conn EXCEPT !.cmd = m.cmd, !.httpver = float10(m.httpver),
                          !.path = m.path],
             m,
             ParseHeaderLines(conn.headers,
                              split(SliceFrom(data, delim + 2), CRLF)))

\* parse_headers once delim = data.find('\r\n') is known
ParseFrom(conn, data, delim) ==
    ParseRequestLine(conn, data, delim, req_line_re(SliceTo(data, delim)))

\* Connection.parse_headers(data): the connection after the call.
parse_headers(conn, data) == ParseFrom(conn, data, find(data, CRLF))

S_Content_Disposition ==
    <<"C","o","n","t","e","n","t","-","D","i","s","p","o","s","i","t","i","o","n">>
S_multipart == <<"m","u","l","t","i","p","a","r","t","/","f","o","r","m","-","d","a","t","a">>
S_filename  == <<"f","i","l","e","n","a","m","e">>
S_name      == <<"n","a","m","e">>
S_dashes    == <<"-","-">>

\* breakpoint() stops the process in the debugger.  Nothing runs until the
\* debugger is left: either the code goes on ("continue", also what
\* PYTHONBREAKPOINT=0 gives) or the debugger is quit and BdbQuit is raised.
DebuggerOutcomes == {"continue", "quit"}
Breakpoint(dbg, e) == IF dbg = "quit" THEN "BdbQuit" ELSE e

\* The two loops of parse_multipart that split `key<sep>value` pieces into a
\* plain dict.  A piece without the separator reaches breakpoint(); when the
\* code goes on, split[1] raises IndexError.
RECURSIVE MultipartHeaders(_, _, _)
MultipartHeader(headers, lines, header, dbg) ==
    IF Len(header) # 2
    THEN [d |-> headers, exc |-> Breakpoint(dbg, "IndexError")]
    ELSE MultipartHeaders(DictSet(headers, header[1], lstrip(header[2])),
                          Tail(lines), dbg)
MultipartHeaders(headers, lines, dbg) ==
    IF lines = <<>> THEN [d |-> headers, exc |-> ""]
    ELSE MultipartHeader(headers, lines, split1(Head(lines), COLON), dbg)

RECURSIVE MultipartAttrs(_, _, _)
MultipartAttr(attrs, pieces, attr, dbg) ==
    IF Len(attr) # 2
    THEN [d |-> attrs, exc |-> Breakpoint(dbg, "IndexError")]
    ELSE MultipartAttrs(DictSet(attrs, lstrip(attr[1]),
                                SliceTo(SliceFrom(attr[2], 1), -1)),
                        Tail(pieces), dbg)
MultipartAttrs(attrs, pieces, dbg) ==
    IF pieces = <<>> THEN [d |-> attrs, exc |-> ""]
    ELSE MultipartAttr(attrs, pieces, split1(Head(pieces), <<"=">>), dbg)

\* parse_multipart, the end of the loop body: the part goes to files or to
\* multipart_args.  The result is the connection and the exception raised
\* ("" when none).  MultipartStoreAsField is the fault of a loop body that
\* decodes every part and stores it in multipart_args under its name.
MultipartStoreAsField(conn, attrs, body) ==
    IF ~Decodes(body) THEN [conn |-> conn, exc |-> "UnicodeDecodeError"]
    ELSE IF S_name \notin DOMAIN attrs THEN [conn |-> conn, exc |-> "KeyError"]
    ELSE [conn |-> [conn EXCEPT !.multipart_args =
                                    DictSet(@, attrs[S_name], decode(body))],
          exc |-> ""]
MultipartStore(conn, attrs, body) ==
    IF S_filename \in DOMAIN attrs
    THEN [conn |-> [conn EXCEPT !.files = DictSet(@, attrs[S_filename], body)],
          exc |-> ""]
    ELSE IF ~Decodes(body) THEN [conn |-> conn, exc |-> "UnicodeDecodeError"]
    ELSE IF S_name \notin DOMAIN attrs THEN [conn |-> conn, exc |-> "KeyError"]
    ELSE [conn |-> [conn EXCEPT !.multipart_args =
                                    DictSet(@, attrs[S_name], decode(body))],
          exc |-> ""]

\* parse_multipart: the loop over the parts
RECURSIVE MultipartParams(_, _, _)
MultipartStored(params, r, dbg) ==
    IF r.exc # "" THEN r ELSE MultipartParams(r.conn, Tail(params), dbg)
MultipartPartAttrs(conn, params, body, attrs, dbg) ==
    IF attrs.exc # "" THEN [conn |-> conn, exc |-> attrs.exc]
    ELSE MultipartStored(params, MultipartStore(conn, attrs.d, SliceTo(body, -2)),
                         dbg)
MultipartPartHeaders(conn, params, body, headers, dbg) ==
    IF headers.exc # "" THEN [conn |-> conn, exc |-> headers.exc]
    ELSE IF S_Content_Disposition \notin DOMAIN headers.d
    THEN [conn |-> conn, exc |-> Breakpoint(dbg, "KeyError")]
    ELSE MultipartPartAttrs(
             conn, params, body,
             MultipartAttrs(EmptyDict,
                            Tail(split(headers.d[S_Content_Disposition], <<";">>)),
                            dbg),
             dbg)
MultipartParam(conn, params, param, dbg) ==
    IF Len(param) # 2 THEN [conn |-> conn, exc |-> "ValueError"]
    ELSE IF ~Decodes(param[1]) THEN [conn |-> conn, exc |-> "UnicodeDecodeError"]
    ELSE MultipartPartHeaders(
             conn, params, param[2],
             MultipartHeaders(EmptyDict, Tail(split(decode(param[1]), CRLF)),
                              dbg),
             dbg)
MultipartParams(conn, params, dbg) ==
    IF params = <<>> THEN [conn |-> conn, exc |-> ""]
    ELSE IF Head(params) = S_dashes \o CRLF
    THEN MultipartParams(conn, Tail(params), dbg)
    ELSE MultipartParam(conn, params, split1(Head(params), CRLFCRLF), dbg)

\* parse_multipart once the Content-Type header is split at its first '='
MultipartBoundary(conn, content_type, dbg) ==
    IF Len(content_type) # 2 THEN [conn |-> conn, exc |-> "IndexError"]
    ELSE MultipartParams(conn,
                         Tail(split(conn.body[1],
                                    S_dashes \o encode(content_type[2]))),
                         dbg)

\* Connection.parse_multipart(): the connection after the call and the
\* exception that left it.
parse_multipart(conn, dbg) ==
    MultipartBoundary(conn,
                      split1(CID_getitem(conn.headers, S_Content_Type), <<"=">>),
                      dbg)

(***************************************************************************)
(* Response writer                                                         *)
(***************************************************************************)
\* _httpstatus_str: the members of HTTPStatus with their reason strings.
httpstatus_str == {
    [code |-> 100, reason |-> <<"C","o","n","t","i","n","u","e">>],
    [code |-> 101, reason |-> <<"S","w","i","t","c","h","i","n","g"," ","P","r","o","t","o","c","o","l","s">>],
    [code |-> 102, reason |-> <<"P","r","o","c","e","s","s","i","n","g">>],
    [code |-> 200, reason |-> <<"O","k">>],
    [code |-> 201, reason |-> <<"C","r","e","a","t","e","d">>],
    [code |-> 202, reason |-> <<"A","c","c","e","p","t","e","d">>],
    [code |-> 203, reason |-> <<"N","o","n","-","a","u","t","h","o","r","i","t","a","t","i","v","e"," ","I","n","f","o","r","m","a","t","i","o","n">>],
    [code |-> 204, reason |-> <<"N","o"," ","C","o","n","t","e","n","t">>],
    [code |-> 205, reason |-> <<"R","e","s","e","t"," ","C","o","n","t","e","n","t">>],
    [code |-> 206, reason |-> <<"P","a","r","t","i","a","l"," ","C","o","n","t","e","n","t">>],
    [code |-> 207, reason |-> <<"M","u","l","t","i","-","S","t","a","t","u","s">>],
    [code |-> 208, reason |-> <<"A","l","r","e","a","d","y"," ","R","e","p","o","r","t","e","d">>],
    [code |-> 226, reason |-> <<"I","M"," ","U","s","e","d">>],
    [code |-> 300, reason |-> <<"M","u","l","t","i","p","l","e"," ","C","h","o","i","c","e","s">>],
    [code |-> 301, reason |-> <<"M","o","v","e","d"," ","P","e","r","m","a","n","e","n","t","l","y">>],
    [code |-> 302, reason |-> <<"F","o","u","n","d">>],
    [code |-> 303, reason |-> <<"S","e","e"," ","O","t","h","e","r">>],
    [code |-> 304, reason |-> <<"N","o","t"," ","M","o","d","i","f","i","e","d">>],
    [code |-> 305, reason |-> <<"U","s","e"," ","P","r","o","x","y">>],
    [code |-> 307, reason |-> <<"T","e","m","p","o","r","a","r","y"," ","R","e","d","i","r","e","c","t">>],
    [code |-> 308, reason |-> <<"P","e","r","m","a","n","e","n","t"," ","R","e","d","i","r","e","c","t">>],
    [code |-> 400, reason |-> <<"B","a","d"," ","R","e","q","u","e","s","t">>],
    [code |-> 401, reason |-> <<"U","n","a","u","t","h","o","r","i","z","e","d">>],
    [code |-> 402, reason |-> <<"P","a","y","m","e","n","t"," ","R","e","q","u","i","r","e","d">>],
    [code |-> 403, reason |-> <<"F","o","r","b","i","d","d","e","n">>],
    [code |-> 404, reason |-> <<"N","o","t"," ","F","o","u","n","d">>],
    [code |-> 405, reason |-> <<"M","e","t","h","o","d"," ","N","o","t"," ","A","l","l","o","w","e","d">>],
    [code |-> 406, reason |-> <<"N","o","t"," ","A","c","c","e","p","t","a","b","l","e">>],
    [code |-> 407, reason |-> <<"P","r","o","x","y"," ","A","u","t","h","e","n","t","i","c","a","t","i","o","n"," ","R","e","q","u","i","r","e","d">>],
    [code |-> 408, reason |-> <<"R","e","q","u","e","s","t"," ","T","i","m","e","o","u","t">>],
    [code |-> 409, reason |-> <<"C","o","n","f","l","i","c","t">>],
    [code |-> 410, reason |-> <<"G","o","n","e">>],
    [code |-> 411, reason |-> <<"L","e","n","g","t","h"," ","R","e","q","u","i","r","e","d">>],
    [code |-> 412, reason |-> <<"P","r","e","c","o","n","d","i","t","i","o","n"," ","F","a","i","l","e","d">>],
    [code |-> 413, reason |-> <<"P","a","y","l","o","a","d"," ","T","o","o"," ","L","a","r","g","e">>],
    [code |-> 414, reason |-> <<"R","e","q","u","e","s","t","-","U","R","I"," ","T","o","o"," ","L","o","n","g">>],
    [code |-> 415, reason |-> <<"U","n","s","u","p","p","o","r","t","e","d"," ","M","e","d","i","a"," ","T","y","p","e">>],
    [code |-> 416, reason |-> <<"R","e","q","u","e","s","t","e","d"," ","R","a","n","g","e"," ","N","o","t"," ","S","a","t","i","s","f","i","a","b","l","e">>],
    [code |-> 417, reason |-> <<"E","x","p","e","c","t","a","t","i","o","n"," ","F","a","i","l","e","d">>],
    [code |-> 418, reason |-> <<"I","'","m"," ","a"," ","t","e","a","p","o","t">>],
    [code |-> 421, reason |-> <<"M","i","s","d","i","r","e","c","t","e","d"," ","R","e","q","u","e","s","t">>],
    [code |-> 422, reason |-> <<"U","n","p","r","o","c","e","s","s","a","b","l","e"," ","E","n","t","i","t","y">>],
    [code |-> 423, reason |-> <<"L","o","c","k","e","d">>],
    [code |-> 424, reason |-> <<"F","a","i","l","e","d"," ","D","e","p","e","n","d","e","n","c","y">>],
    [code |-> 426, reason |-> <<"U","p","g","r","a","d","e"," ","R","e","q","u","i","r","e","d">>],
    [code |-> 428, reason |-> <<"P","r","e","c","o","n","d","i","t","i","o","n"," ","R","e","q","u","i","r","e","d">>],
    [code |-> 429, reason |-> <<"T","o","o"," ","M","a","n","y"," ","R","e","q","u","e","s","t","s">>],
    [code |-> 431, reason |-> <<"R","e","q","u","e","s","t"," ","H","e","a","d","e","r"," ","F","i","e","l","d","s"," ","T","o","o"," ","L","a","r","g","e">>],
    [code |-> 444, reason |-> <<"C","o","n","n","e","c","t","i","o","n"," ","C","l","o","s","e","d"," ","W","i","t","h","o","u","t"," ","R","e","s","p","o","n","s","e">>],
    [code |-> 451, reason |-> <<"U","n","a","v","a","i","l","a","b","l","e"," ","F","o","r"," ","L","e","g","a","l"," ","R","e","a","s","o","n","s">>],
    [code |-> 499, reason |-> <<"C","l","i","e","n","t"," ","C","l","o","s","e","d"," ","R","e","q","u","e","s","t">>],
    [code |-> 500, reason |-> <<"I","n","t","e","r","n","a","l"," ","S","e","r","v","e","r"," ","E","r","r","o","r">>],
    [code |-> 501, reason |-> <<"N","o","t"," ","I","m","p","l","e","m","e","n","t","e","d">>],
    [code |-> 502, reason |-> <<"B","a","d"," ","G","a","t","e","w","a","y">>],
    [code |-> 503, reason |-> <<"S","e","r","v","i","c","e"," ","U","n","a","v","a","i","l","a","b","l","e">>],
    [code |-> 504, reason |-> <<"G","a","t","e","w","a","y"," ","T","i","m","e","o","u","t">>],
    [code |-> 505, reason |-> <<"H","T","T","P"," ","V","e","r","s","i","o","n"," ","N","o","t"," ","S","u","p","p","o","r","t","e","d">>],
    [code |-> 506, reason |-> <<"V","a","r","i","a","n","t"," ","A","l","s","o"," ","N","e","g","o","t","i","a","t","e","s">>],
    [code |-> 507, reason |-> <<"I","n","s","u","f","f","i","c","i","e","n","t"," ","S","t","o","r","a","g","e">>],
    [code |-> 508, reason |-> <<"L","o","o","p"," ","D","e","t","e","c","t","e","d">>],
    [code |-> 510, reason |-> <<"N","o","t"," ","E","x","t","e","n","d","e","d">>],
    [code |-> 511, reason |-> <<"N","e","t","w","o","r","k"," ","A","u","t","h","e","n","t","i","c","a","t","i","o","n"," ","R","e","q","u","i","r","e","d">>],
    [code |-> 599, reason |-> <<"N","e","t","w","o","r","k"," ","C","o","n","n","e","c","t"," ","T","i","m","e","o","u","t"," ","E","r","r","o","r">>]}

\* HTTPStatus(status) succeeds exactly for the codes of the enumeration;
\* any other value raises ValueError.
IsHTTPStatus(status) == \E e \in httpstatus_str : e.code = status

\* str(n) for n >= 0
RECURSIVE str(_)
str(n) == IF n < 10 THEN <<Digits[n + 1]>>
          ELSE str(n \div 10) \o <<Digits[(n % 10) + 1]>>

\* HTTPStatus.__repr__: '<value> <reason>'
HTTPStatus_repr(status) ==
    str(status) \o SP \o (CHOOSE e \in httpstatus_str : e.code = status).reason

\* '\r\n'.join(lines)
RECURSIVE join(_, _)
join(lines, sep) ==
    IF lines = <<>> THEN <<>>
    ELSE IF Len(lines) = 1 THEN lines[1]
    ELSE lines[1] \o sep \o join(Tail(lines), sep)

\* list.insert(index, item) for 0 <= index
insert(l, index, item) ==
    LET i == IF index > Len(l) THEN Len(l) ELSE index
    IN  SubSeq(l, 1, i) \o <<item>> \o SubSeq(l, i + 1, Len(l))

\* Connection.add_resp_header(header, index)
add_resp_header(conn, header, index) ==
    IF index > -1
    THEN [conn EXCEPT !.resp_headers = insert(conn.resp_headers, index, header)]
    ELSE [conn EXCEPT !.resp_headers = Append(conn.resp_headers, header)]

S_HTTP11          == <<"H","T","T","P","/","1",".","1"," ">>
S_ContentLengthH  == S_Content_Length \o <<":"," ">>
S_ContentEncoding == <<"C","o","n","t","e","n","t","-","E","n","c","o","d","i","n","g",":"," ","g","z","i","p">>
S_NotFound        == <<"N","o","t"," ","F","o","u","n","d",".">>

\* Connection.send up to the socket write, for a status HTTPStatus accepts:
\* the connection with its response headers completed, and the bytes
\* handed to sock_sendall.
SendResponse(conn, body) ==
    [conn |-> conn,
     response |-> encode(join(conn.resp_headers, CRLF) \o CRLFCRLF) \o body]
\* Fault: a Content-Length header for every response, the empty ones too.
SendContentLengthAlways(conn, body) ==
    SendResponse(add_resp_header(conn, S_ContentLengthH \o str(Len(body)), 1),
                 body)
SendContentLength(conn, body) ==
    SendResponse(IF body # <<>>
                 THEN add_resp_header(conn, S_ContentLengthH \o str(Len(body)), 1)
                 ELSE conn,
                 body)
send(conn, status, body) ==
    SendContentLength(
        add_resp_header(conn, upper(S_HTTP11 \o HTTPStatus_repr(status)), 0),
        body)

(***************************************************************************)
(* Router: Route, RouteMap, Domain                                         *)
(***************************************************************************)
(***************************************************************************)
(* Python sets of objects hashed by identity                               *)
(***************************************************************************)
\* Server.domains and RouteMap.routes are sets of objects that define no
\* __hash__ and no __eq__: CPython hashes them by their address and compares
\* them by identity (id tells the objects apart).  A set is a hash table, and
\* iterating it yields its keys slot by slot.  The table is held as the slots
\* taken since it was last built, in slot order: a slot holds a key or, once
\* its key is removed, a dummy that remembers whose it was.  mask is the size
\* of the table less one.  The slot a key goes to depends on its address,
\* which differs from run to run: every slot its probe can end in is possible.
NewSet     == [slots |-> <<>>, mask |-> 7]
Entry(key) == [live |-> TRUE, key |-> key]
Dummy(key) == [live |-> FALSE, key |-> [id |-> key.id]]

\* The table after the keys of seq were added to an empty set and came to lie
\* in this order (fewer than five keys: the table has not been rebuilt).
SetOf(seq) == [NewSet EXCEPT !.slots = [i \in DOMAIN seq |-> Entry(seq[i])]]

\* for key in so: the keys in slot order
LiveSlots(so) == SelectSeq(so.slots, LAMBDA e : e.live)
Iteration(so) == [i \in DOMAIN LiveSlots(so) |-> LiveSlots(so)[i].key]
Members(so)   == {so.slots[i].key : i \in {j \in DOMAIN so.slots : so.slots[j].live}}
Ids(keys)     == {key.id : key \in keys}

\* so->fill (keys and dummies) and so->used (keys)
Fill(so) == Len(so.slots)
Used(so) == Cardinality(Members(so))

\* The orders in which the keys of a set can lie in a table
RECURSIVE Arrangements(_)
Arrangements(keys) ==
    IF keys = {} THEN {<<>>}
    ELSE UNION {{<<key>> \o rest : rest \in Arrangements(keys \ {key})} :
                   key \in keys}

\* set_table_resize(so, minused): the new size is the first power of two
\* above minused, from 8 on; the keys are put into a new table, each where
\* its address sends it, and the dummies are dropped.
RECURSIVE TableSize(_, _)
TableSize(newsize, minused) ==
    IF newsize <= minused THEN TableSize(newsize * 2, minused) ELSE newsize
Rebuilt(keys, minused) ==
    {[slots |-> [i \in DOMAIN order |-> Entry(order[i])],
      mask |-> TableSize(8, minused) - 1] : order \in Arrangements(keys)}

\* key in so, and whether the slot key was removed from still holds its dummy
Present(so, key) ==
    \E i \in DOMAIN so.slots : so.slots[i].live /\ so.slots[i].key.id = key.id
OwnDummy(so, key) ==
    \E i \in DOMAIN so.slots : ~so.slots[i].live /\ so.slots[i].key.id = key.id

\* The probe for a key that is not in the set ends in the first dummy it
\* passed, or in an unused slot when it passed none.  It passes the key's own
\* dummy when that is still there.
Reused(so, key) ==
    {[so EXCEPT !.slots[i] = Entry(key)] :
        i \in {j \in DOMAIN so.slots : ~so.slots[j].live}}
Unused(so, key) ==
    IF OwnDummy(so, key) THEN {}
    ELSE {[so EXCEPT !.slots = insert(so.slots, i, Entry(key))] :
             i \in 0..Fill(so)}

\* set.add(key): nothing for a key of the set.  Taking an unused slot raises
\* fill, and the table is rebuilt for four times its keys once fill * 5
\* reaches mask * 3.
set_add(so, key) ==
    IF Present(so, key) THEN {so}
    ELSE Reused(so, key) \cup
         IF Unused(so, key) # {} /\ (Fill(so) + 1) * 5 >= so.mask * 3
         THEN Rebuilt(Members(so) \cup {key}, (Used(so) + 1) * 4)
         ELSE Unused(so, key)

\* set.remove(key) on a key of the set: its slot becomes a dummy
set_remove(so, key) ==
    [so EXCEPT !.slots = [i \in DOMAIN so.slots |->
        IF so.slots[i].live /\ so.slots[i].key.id = key.id
        THEN Dummy(key) ELSE so.slots[i]]]

\* The keys of order put into the tables one after the other, where the
\* table has room for them all
RECURSIVE Placed(_, _)
Placed(tables, order) ==
    IF order = <<>> THEN tables
    ELSE Placed(UNION {IF Present(so, Head(order)) THEN {so}
                       ELSE Reused(so, Head(order)) \cup Unused(so, Head(order)) :
                          so \in tables},
                Tail(order))

\* so |= other, where same says that other is so itself: nothing for so
\* itself and for an empty other (set_merge returns at once).  The table is
\* first rebuilt, for twice the keys of both, when (fill + len(other)) * 5
\* reaches mask * 3; the keys of other are then put in as iterating other
\* yields them.
set_ior(so, other, same) ==
    IF same \/ other = {} THEN {so}
    ELSE IF (Fill(so) + Cardinality(other)) * 5 >= so.mask * 3
    THEN Rebuilt(Members(so) \cup other, (Used(so) + Cardinality(other)) * 2)
    ELSE UNION {Placed({so}, order) : order \in Arrangements(other)}

\* The keys of other discarded from so
Discarded(so, other) ==
    [so EXCEPT !.slots = [i \in DOMAIN so.slots |->
        IF so.slots[i].live /\ so.slots[i].key.id \in Ids(other)
        THEN Dummy(so.slots[i].key) ELSE so.slots[i]]]

\* so -= other, where same says that other is so itself: so itself is
\* cleared (set_clear_internal leaves the table of a new set).  Otherwise
\* every key of other is discarded, and the table is rebuilt for four times
\* its keys when it then holds more than mask // 4 dummies, whether or not a
\* key was removed.
set_isub(so, other, same) ==
    IF same THEN {NewSet}
    ELSE IF Fill(so) - Used(Discarded(so, other)) > so.mask \div 4
    THEN Rebuilt(Members(Discarded(so, other)), Used(Discarded(so, other)) * 4)
    ELSE {Discarded(so, other)}

(***************************************************************************)
(* Routes and domains                                                      *)
(***************************************************************************)
\* A matcher is built once, in Route.__init__ / Domain.__init__, from a str
\* (kind "str": equality), an iterable of str (kind "iter": membership) or
\* a compiled pattern (kind "re": pattern.match(k)).  key is the set of the
\* strings it was built from: the one str, the members of the iterable, the
\* one pattern.  The patterns here are runs of literal characters, which
\* match() finds at the start of k.
Cond(kind, key, k) ==
    IF kind = "str" THEN key = {k}
    ELSE IF kind = "iter" THEN k \in key
    ELSE \E pattern \in key : StartsWithAt(k, pattern, 1)

\* Route.matches(path, method)
Route_matches(route, path, method) ==
    /\ \E i \in 1..Len(route.methods) : route.methods[i] = method
    /\ Cond(route.kind, route.path, path)

\* Domain.matches(hostname)
Domain_matches(domain, hostname) ==
    Cond(domain.kind, domain.hostname, hostname)

\* The first member, in iteration order, of the positions hits of seq, as an
\* Optional: what a `for` loop that returns on the first hit returns.
FirstMatch(seq, hits) ==
    IF hits = {} THEN None
    ELSE Some(seq[CHOOSE i \in hits : \A j \in hits : i <= j])

\* RouteMap.find_route(path, method)
find_route(domain, path, method) ==
    FirstMatch(Iteration(domain.routes),
               {i \in DOMAIN Iteration(domain.routes) :
                    Route_matches(Iteration(domain.routes)[i], path, method)})

\* Fault: a find_domain that returns the first domain of the iteration
\* without asking whether it matches.
FindAnyDomain(doms, hostname) ==
    IF Members(doms) = {} THEN None ELSE Some(Iteration(doms)[1])

\* Server.find_domain(hostname) on the set doms
find_domain(doms, hostname) ==
    FirstMatch(Iteration(doms),
               {i \in DOMAIN Iteration(doms) :
                    Domain_matches(Iteration(doms)[i], hostname)})

(***************************************************************************)
(* Request streams                                                         *)
(***************************************************************************)
H_a == <<"a">>
H_c == <<"c">>
P_root == <<"/">>
P_q    == <<"/","q">>
P_r    == <<"/","r">>
P_u    == <<"/","u">>
V_10 == <<"1",".","0">>
V_11 == <<"1",".","1">>
V_20 == <<"2",".","0">>
V_30 == <<"3",".","0">>
S_ok   == <<"o","k">>
S_made == <<"m","a","d","e">>

ReqLine(method, target, version) ==
    method \o SP \o target \o SP \o S_HTTP \o version
Header(k, v) == k \o <<":", " ">> \o v
\* The bytes of a request: the request line, the header lines, the blank
\* line and the body.
Request(line, headers, body) ==
    join(<<line>> \o headers, CRLF) \o CRLFCRLF \o body

Hdr_Host_a == Header(S_Host, H_a)
Hdr_X      == Header(<<"X">>, <<"y">>)

Req_index   == Request(ReqLine(S_GET, P_root, V_11), <<Hdr_Host_a>>, <<>>)
Req_no_host == Request(ReqLine(S_GET, P_root, V_11), <<Hdr_X>>, <<>>)
Req_q       == Request(ReqLine(S_HEAD, P_q \o <<"?","x","=","1">>, V_10),
                       <<Header(<<"h","o","s","t">>, H_a)>>, <<>>)
Req_c_root  == Request(ReqLine(S_GET, P_root, V_20), <<Header(S_Host, H_c)>>, <<>>)
Req_other   == Request(ReqLine(S_GET, P_root, V_11),
                       <<Header(S_Host, <<"b">>)>>, <<>>)
Req_post    == Request(ReqLine(S_POST, P_root, V_11),
                       <<Hdr_Host_a, Header(S_Content_Length, <<"2">>)>>, S_ok)
\* the same with one more byte sent after the two of the body
Req_post_more == Req_post \o <<"X">>
Req_lower   == Request(ReqLine(<<"g","e","t">>, P_root, V_11), <<Hdr_Host_a>>, <<>>)
Req_bare    == Request(ReqLine(S_GET, P_root, V_11), <<>>, <<>>)
Req_bad_hdr == Request(ReqLine(S_GET, P_root, V_11), <<Hdr_Host_a, <<"b","a","d">>>>, <<>>)

\* a header whose name is outside ASCII, 'été: v'; a Content-Length in
\* Arabic-Indic digits (U+0662 is the digit two); a Content-Length beyond
\* sys.maxsize and one of ten terabytes
S_ete == <<"\\xe9","t","\\xe9">>
S_Ete == <<"\\xc9","t","\\xe9">>
Req_accent  == Request(ReqLine(S_GET, P_root, V_11),
                       <<Hdr_Host_a, encode(Header(S_ete, <<"v">>))>>, <<>>)
Req_post_arabic ==
    Request(ReqLine(S_POST, P_root, V_11),
            <<Hdr_Host_a, encode(Header(S_Content_Length, <<"\\u0662">>))>>, S_ok)
Req_post_overflow ==
    Request(ReqLine(S_POST, P_root, V_11),
            <<Hdr_Host_a, Header(S_Content_Length, [k \in 1..20 |-> "9"])>>, S_ok)
Req_post_large ==
    Request(ReqLine(S_POST, P_root, V_11),
            <<Hdr_Host_a,
              Header(S_Content_Length, <<"1">> \o [k \in 1..13 |-> "0"])>>,
            S_ok)

\* a header named by the micro sign U+00B5, whose upper case and title case
\* is the Greek capital mu U+039C, whose lower case is U+03BC
S_micro == <<"\\xb5">>
S_Mu == <<"\\u039c">>
Req_micro == Request(ReqLine(S_GET, P_root, V_11),
                     <<Hdr_Host_a, encode(Header(S_micro, <<"v">>))>>, <<>>)

\* a POST of the form fields k = v and a = 'b c'
S_urlencoded ==
    <<"a","p","p","l","i","c","a","t","i","o","n","/","x","-","w","w","w","-",
      "f","o","r","m","-","u","r","l","e","n","c","o","d","e","d">>
Req_form    == Request(ReqLine(S_POST, P_root, V_11),
                       <<Hdr_Host_a, Header(S_Content_Type, S_urlencoded),
                         Header(S_Content_Length, <<"1","1">>)>>,
                       <<"k","=","v","&","a","=","b","%","2","0","c">>)

\* requests that stop short: before the blank line, and one byte into a
\* body of two
Req_cut_headers == ReqLine(S_GET, P_root, V_11) \o CRLF \o Hdr_Host_a \o CRLF
Req_cut_body    == Request(ReqLine(S_POST, P_root, V_11),
                           <<Hdr_Host_a, Header(S_Content_Length, <<"2">>)>>,
                           <<"o">>)
CutStreams == {Req_cut_headers, Req_cut_body}

\* multipart/form-data bodies with the boundary X: each part is its header
\* lines, a blank line and its value.
S_boundary == <<"X">>
S_form_data == <<"f","o","r","m","-","d","a","t","a">>
Part(headers, value) ==
    S_dashes \o S_boundary \o CRLF \o join(headers, CRLF) \o CRLFCRLF
    \o value \o CRLF
LastBoundary == S_dashes \o S_boundary \o S_dashes \o CRLF
Disposition(attrs) == Header(S_Content_Disposition, S_form_data \o attrs)
Upload(body) ==
    Request(ReqLine(S_POST, P_u, V_11),
            <<Hdr_Host_a,
              Header(S_Content_Type,
                     S_multipart \o <<";"," ","b","o","u","n","d","a","r","y","=">>
                     \o S_boundary),
              Header(S_Content_Length, str(Len(body)))>>,
            body)
Attr_name_k == <<";"," ","n","a","m","e","=","\"","k","\"">>
Attr_file_f == <<";"," ","f","i","l","e","n","a","m","e","=","\"","f","\"">>
\* one field; one file; a part without Content-Disposition after a field; a
\* part header line without ':'
Req_field    == Upload(Part(<<Disposition(Attr_name_k)>>, <<"v">>) \o LastBoundary)
Req_file     == Upload(Part(<<Disposition(Attr_name_k \o Attr_file_f)>>, <<"v">>)
                       \o LastBoundary)
Req_no_disp  == Upload(Part(<<Disposition(Attr_name_k)>>, <<"v">>)
                       \o Part(<<Hdr_X>>, <<"w">>) \o LastBoundary)
Req_bad_part == Upload(Part(<<<<"b","a","d">>>>, <<"v">>) \o LastBoundary)
MultipartStreams == {Req_field, Req_file, Req_no_disp, Req_bad_part}

\* Uploads made of form parts.  A form part has a name, an optional
\* filename and a value; a file part also carries its own Content-Type.
Attr(k, v) == <<";", " ">> \o k \o <<"=", "\"">> \o v \o <<"\"">>
FormPart(p) ==
    IF p.filename = None
    THEN Part(<<Disposition(Attr(S_name, p.name))>>, p.value)
    ELSE Part(<<Disposition(Attr(S_name, p.name) \o Attr(S_filename, p.filename[1])),
                Header(S_Content_Type, <<"i","m","a","g","e","/","p","n","g">>)>>,
              p.value)
RECURSIVE FormParts(_)
FormParts(parts) ==
    IF parts = <<>> THEN <<>> ELSE FormPart(Head(parts)) \o FormParts(Tail(parts))
UploadOf(parts) == Upload(FormParts(parts) \o LastBoundary)

\* The parts: a file of raw bytes that are no text and hold a blank line,
\* '=' and ';'; a field; a field with an empty value; a file with the bytes
\* of the first field; a second value for the first field's name.
F_x_png == <<"x",".","p","n","g">>
Part_f  == [name |-> <<"f">>, filename |-> Some(F_x_png),
            value |-> <<B_ff>> \o CRLFCRLF \o <<"=", ";">>]
Part_k  == [name |-> <<"k">>, filename |-> None, value |-> <<"v">>]
Part_e  == [name |-> <<"e">>, filename |-> None, value |-> <<>>]
Part_ky == [name |-> <<"k">>, filename |-> Some(<<"y">>), value |-> <<"v">>]
Part_kw == [name |-> <<"k">>, filename |-> None, value |-> <<"w">>]
PartPool == {Part_f, Part_k, Part_e, Part_ky, Part_kw}
\* The uploads: each part alone; the file followed by the field; the two
\* values of one field name; the file and the field that share a name.
UploadLists ==
    {<<p>> : p \in PartPool}
    \cup {<<Part_f, Part_k>>, <<Part_k, Part_kw>>, <<Part_ky, Part_k>>}
UploadStreams == {UploadOf(parts) : parts \in UploadLists}

\* The requests of the lifecycle specification
LifeStreams == {Req_index, Req_no_host}

\* The requests of the dispatch specification
DispatchStreams ==
    {Req_index, Req_no_host, Req_q, Req_c_root, Req_other, Req_post,
     Req_post_more, Req_lower, Req_bare, Req_bad_hdr, Req_form, Req_accent,
     Req_post_arabic, Req_post_overflow, Req_post_large}
    \cup MultipartStreams

\* The request lines of the parsing specification: listed and unlisted
\* methods and versions, a target that is no path, each with and without
\* header lines after it.
ParseMethods  == {S_GET, S_POST, S_OPTIONS, <<"g","e","t">>, <<"F","O","O">>,
                  <<"G","E","T","S">>}
ParseVersions == ReqVersions \cup {<<"1",".","1","0">>, <<"1",".","2">>,
                                   <<"1">>, <<"1","1",".","1">>}
ParseTargets  == {P_root, P_q \o <<"?","x","=","1">>, <<"x">>}
ParseHeaders  == {<<>>, <<Hdr_Host_a>>}
ParseStreams  ==
    {Request(ReqLine(m, t, v), h, <<>>) :
        m \in ParseMethods, t \in ParseTargets, v \in ParseVersions,
        h \in ParseHeaders}

\* The parses of the requests above.  A header block or an upload of these
\* streams is parsed many times over, once for every way its stream can be
\* cut, so its parse is computed once and kept: ParsedBlocks holds, for each
\* header block, what temp_buf[:delim].decode() and parse_headers make of
\* it on a new Connection (None when decode raises UnicodeDecodeError), and
\* ParsedUploads holds what parse_multipart makes of each Connection that
\* has read a whole upload.
Streams ==
    DispatchStreams \cup ParseStreams \cup UploadStreams \cup CutStreams
    \cup {Req_micro}
HeaderBlock(s) == SliceTo(s, find(s, CRLFCRLF))
HeaderBlocks == {HeaderBlock(s) : s \in {x \in Streams : Contains(x, CRLFCRLF)}}
Decoded(conn, block) ==
    IF Decodes(block) THEN Some(parse_headers(conn, decode(block))) ELSE None
ParsedBlocks == [b \in HeaderBlocks |-> Decoded(NewConnection, b)]
UploadConn(s) ==
    [ParsedBlocks[HeaderBlock(s)][1]
        EXCEPT !.body = Some(SliceFrom(s, find(s, CRLFCRLF) + 4))]
UploadConns == {UploadConn(s) : s \in MultipartStreams \cup UploadStreams}
ParsedUploads ==
    [conn \in UploadConns |->
        [dbg \in DebuggerOutcomes |-> parse_multipart(conn, dbg)]]

(***************************************************************************)
(* gzip.compress(data, compresslevel) of Python 3.11 over zlib 1.2.13:     *)
(* the ten header bytes, zlib.compress(data, level, wbits=-15) and the     *)
(* CRC-32 and length of the input.  deflate is run as zlib.compress runs   *)
(* it: one call with Z_FINISH, windowBits 15, memLevel 8, the default      *)
(* strategy.  It is followed here for inputs of fewer than 16383 bytes     *)
(* (lit_bufsize - 1 symbols), which deflate sends as one block of one      *)
(* window.                                                                 *)
(*                                                                         *)
(* Octets are integers 0..255 and bits are 0 or 1, first bit sent first.   *)
(* Loops of the C code that can run long are folded over a range that is   *)
(* halved at each call, the state passing from the lower half to the       *)
(* upper one; Reached(state) has the lower half worked out before the     *)
(* upper half is entered.                                                  *)
(***************************************************************************)
Reached(state) == DOMAIN state = DOMAIN state
MIN_MATCH     == 3
MAX_MATCH     == 258
MIN_LOOKAHEAD == MAX_MATCH + MIN_MATCH + 1
W_SIZE        == 32768
MAX_DIST      == W_SIZE - MIN_LOOKAHEAD
TOO_FAR       == 4096
MAX_BITS      == 15
MAX_BL_BITS   == 7
LITERALS      == 256
END_BLOCK     == 256
L_CODES       == 286
D_CODES       == 30
BL_CODES      == 19
REP_3_6       == 16
REPZ_3_10     == 17
REPZ_11_138   == 18

\* deflate.c, configuration_table[1..9]
Config(good, lazy, nice, chain, slow) ==
    [good_length |-> good, max_lazy |-> lazy, nice_length |-> nice,
     max_chain |-> chain, slow |-> slow]
configuration_table ==
    <<Config(4, 4, 8, 4, FALSE), Config(4, 5, 16, 8, FALSE),
      Config(4, 6, 32, 32, FALSE), Config(4, 4, 16, 16, TRUE),
      Config(8, 16, 32, 32, TRUE), Config(8, 16, 128, 128, TRUE),
      Config(8, 32, 128, 256, TRUE), Config(32, 128, 258, 1024, TRUE),
      Config(32, 258, 258, 4096, TRUE)>>

\* trees.c: extra bits of the length, distance and bit-length codes, the
\* order in which the bit-length codes are sent, the first length (less
\* MIN_MATCH) and first distance (less one) of each code.
extra_lbits ==
    <<0, 0, 0, 0, 0, 0, 0, 0, 1, 1, 1, 1, 2, 2, 2, 2, 3, 3, 3, 3, 4, 4, 4, 4,
      5, 5, 5, 5, 0>>
extra_dbits ==
    <<0, 0, 0, 0, 1, 1, 2, 2, 3, 3, 4, 4, 5, 5, 6, 6, 7, 7, 8, 8, 9, 9, 10,
      10, 11, 11, 12, 12, 13, 13>>
extra_blbits == <<0, 0, 0, 0, 0, 0, 0, 0, 0, 0, 0, 0, 0, 0, 0, 0, 2, 3, 7>>
bl_order ==
    <<16, 17, 18, 0, 8, 7, 9, 6, 10, 5, 11, 4, 12, 3, 13, 2, 14, 1, 15>>
base_length ==
    <<0, 1, 2, 3, 4, 5, 6, 7, 8, 10, 12, 14, 16, 20, 24, 28, 32, 40, 48, 56,
      64, 80, 96, 112, 128, 160, 192, 224, 0>>
base_dist ==
    <<0, 1, 2, 3, 4, 6, 8, 12, 16, 24, 32, 48, 64, 96, 128, 192, 256, 384,
      512, 768, 1024, 1536, 2048, 3072, 4096, 6144, 8192, 12288, 16384,
      24576>>
Largest(s) == CHOOSE x \in s : \A y \in s : y <= x
length_code(lc) ==
    IF lc = 255 THEN 28 ELSE Largest({c \in 0..27 : base_length[c + 1] <= lc})
d_code(dist) == Largest({c \in 0..29 : base_dist[c + 1] <= dist})
\* static_ltree and static_dtree, the code lengths
static_ltree ==
    [n \in 0..(L_CODES + 1) |->
        IF n <= 143 THEN 8 ELSE IF n <= 255 THEN 9 ELSE IF n <= 279 THEN 7 ELSE 8]
static_dtree == [n \in 0..(D_CODES - 1) |-> 5]

\* a ^ b
RECURSIVE BitXor(_, _)
BitXor(a, b) ==
    IF a = 0 THEN b ELSE IF b = 0 THEN a
    ELSE ((a + b) % 2) + 2 * BitXor(a \div 2, b \div 2)

\* The low `length` bits of value, lowest first (send_bits).
Bits(value, length) == [i \in 1..length |-> (value \div 2^(i - 1)) % 2]
\* The octets of a bit string, filled up with zeros (bi_windup).
Packed(bits) ==
    [i \in 1..((Len(bits) + 7) \div 8) |->
        LET bit(k) == IF 8 * (i - 1) + k <= Len(bits) THEN bits[8 * (i - 1) + k] ELSE 0
        IN bit(1) + 2 * bit(2) + 4 * bit(3) + 8 * bit(4) + 16 * bit(5)
           + 32 * bit(6) + 64 * bit(7) + 128 * bit(8)]
\* struct.pack('<L', n) for n below 2^31, and '<H'
LittleEndian(n, w) == [i \in 1..w |-> (n \div 256^(i - 1)) % 256]

\* zlib.crc32: crc32.c, byte by byte over crc_table.  A 32-bit word is a
\* pair of 16-bit halves.
Word(hi, lo) == [hi |-> hi, lo |-> lo]
WordXor(a, b) == Word(BitXor(a.hi, b.hi), BitXor(a.lo, b.lo))
ShiftRight(a, k) == Word(a.hi \div 2^k, a.lo \div 2^k + (a.hi % 2^k) * 2^(16 - k))
RECURSIVE make_crc_table(_, _)
make_crc_table(c, k) ==
    IF k = 0 THEN c
    ELSE make_crc_table(IF c.lo % 2 = 1
                        THEN WordXor(Word(60856, 33568), ShiftRight(c, 1))
                        ELSE ShiftRight(c, 1), k - 1)
crc_table == [n \in 0..255 |-> make_crc_table(Word(0, n), 8)]
RECURSIVE crc32_range(_, _, _, _)
crc32_range(crc, octets, lo, hi) ==
    IF lo > hi \/ ~Reached(crc) THEN crc
    ELSE IF lo = hi
    THEN WordXor(crc_table[BitXor(crc.lo % 256, octets[lo])], ShiftRight(crc, 8))
    ELSE crc32_range(crc32_range(crc, octets, lo, (lo + hi) \div 2),
                     octets, (lo + hi) \div 2 + 1, hi)
\* struct.pack('<L', zlib.crc32(data))
crc32(octets) ==
    LET crc == WordXor(crc32_range(Word(65535, 65535), octets, 1, Len(octets)),
                       Word(65535, 65535))
    IN LittleEndian(crc.lo, 2) \o LittleEndian(crc.hi, 2)

\* deflate.c: the window is the input followed by zeros.
Window(octets, i) == IF i < Len(octets) THEN octets[i + 1] ELSE 0
\* UPDATE_HASH over the three bytes at i (hash_bits 15, hash_shift 5):
\* ins_h once INSERT_STRING(s, i, hash_head) has updated it
UPDATE_HASH(octets, i) ==
    BitXor(BitXor((Window(octets, i) % 32) * 1024, Window(octets, i + 1) * 32),
           Window(octets, i + 2))
\* What deflate is given: the input, the hash of every position, the
\* configuration of the level.
Stream(octets, level) ==
    [window |-> octets, hash |-> [i \in 1..Len(octets) |-> UPDATE_HASH(octets, i - 1)],
     config |-> configuration_table[level]]
\* lm_init.  inserted holds the positions INSERT_STRING has put in head and
\* prev: the chain of a hash value is its positions, the latest first.
lm_init(z) ==
    [strstart |-> 0, lookahead |-> Len(z.window), match_length |-> MIN_MATCH - 1,
     match_start |-> 0, match_available |-> FALSE, inserted |-> {},
     syms |-> <<>>]
\* The chain INSERT_STRING(strstart) returns the head of: position 0 is NIL
\* and ends every chain.
Chain(z, s) ==
    SelectSeq([i \in 1..(s.strstart - 1) |-> s.strstart - i],
              LAMBDA p : p \in s.inserted /\ z.hash[p + 1] = z.hash[s.strstart + 1])
\* The length of the match of the strings at cur and at scan, from lo on and
\* below hi.
RECURSIVE MatchLength(_, _, _, _, _)
RECURSIVE UpperHalf(_, _, _, _, _, _)
MatchLength(z, cur, scan, lo, hi) ==
    IF lo >= hi THEN hi
    ELSE IF hi - lo = 1
    THEN IF Window(z.window, cur + lo) = Window(z.window, scan + lo) THEN hi ELSE lo
    ELSE UpperHalf(z, cur, scan, hi, MatchLength(z, cur, scan, lo, (lo + hi) \div 2),
                   (lo + hi) \div 2)
UpperHalf(z, cur, scan, hi, len, mid) ==
    IF len < mid THEN len ELSE MatchLength(z, cur, scan, mid, hi)
\* longest_match, one turn of its loop: the i-th string of the chain, at cur
\* and matching over len bytes, against the best match so far.
Compared(m, i, cur, len) ==
    IF i > 1 /\ cur <= m.limit THEN [m EXCEPT !.done = TRUE]
    ELSE IF len > m.best_len
    THEN [m EXCEPT !.best_len = len, !.match_start = cur,
                   !.done = len >= m.nice_match]
    ELSE m
RECURSIVE MatchRange(_, _, _, _, _, _)
MatchRange(z, s, m, chain, lo, hi) ==
    IF lo > hi \/ m.done THEN m
    ELSE IF lo = hi
    THEN Compared(m, lo, chain[lo],
                  MatchLength(z, chain[lo], s.strstart, 0, MAX_MATCH))
    ELSE MatchRange(z, s, MatchRange(z, s, m, chain, lo, (lo + hi) \div 2),
                    chain, (lo + hi) \div 2 + 1, hi)
Least(a, b) == IF a <= b THEN a ELSE b
Greatest(a, b) == IF a >= b THEN a ELSE b
Matched(s, m) ==
    [s EXCEPT !.match_length = Least(m.best_len, s.lookahead),
              !.match_start = m.match_start]
\* longest_match(s, cur_match) with prev_length: the state with match_length
\* and match_start set.
longest_match(z, s, chain, prev_length) ==
    Matched(s, MatchRange(z, s,
                 [best_len |-> prev_length, match_start |-> s.match_start,
                  nice_match |-> Least(z.config.nice_length, s.lookahead),
                  limit |-> IF s.strstart > MAX_DIST THEN s.strstart - MAX_DIST ELSE 0,
                  done |-> FALSE],
                 chain, 1,
                 Least(Len(chain),
                       IF prev_length >= z.config.good_length
                       THEN z.config.max_chain \div 4 ELSE z.config.max_chain)))
\* INSERT_STRING(s, s->strstart, hash_head) where lookahead >= MIN_MATCH
Inserted(s) ==
    IF s.lookahead >= MIN_MATCH
    THEN [s EXCEPT !.inserted = @ \cup {s.strstart}] ELSE s
\* Whether a match is looked for: hash_head != NIL and within MAX_DIST
HasHead(z, s) ==
    /\ s.lookahead >= MIN_MATCH
    /\ Chain(z, s) # <<>>
    /\ s.strstart - Chain(z, s)[1] <= MAX_DIST
\* _tr_tally_lit(c) and _tr_tally_dist(dist, lc)
Literal(c) == [dist |-> 0, lc |-> c]
Match(dist, lc) == [dist |-> dist, lc |-> lc]
\* deflate_fast, one turn of its loop after the match has been looked for
FastTally(z, s) ==
    IF s.match_length >= MIN_MATCH
    THEN IF s.match_length <= z.config.max_lazy
            /\ s.lookahead - s.match_length >= MIN_MATCH
         THEN [s EXCEPT !.syms = Append(@, Match(s.strstart - s.match_start,
                                                 s.match_length - MIN_MATCH)),
                        !.lookahead = @ - s.match_length,
                        !.inserted = @ \cup ((s.strstart + 1)..(s.strstart + s.match_length - 1)),
                        !.strstart = @ + s.match_length,
                        !.match_length = 0]
         ELSE [s EXCEPT !.syms = Append(@, Match(s.strstart - s.match_start,
                                                 s.match_length - MIN_MATCH)),
                        !.lookahead = @ - s.match_length,
                        !.strstart = @ + s.match_length,
                        !.match_length = 0]
    ELSE [s EXCEPT !.syms = Append(@, Literal(Window(z.window, s.strstart))),
                   !.lookahead = @ - 1, !.strstart = @ + 1]
deflate_fast(z, s) ==
    FastTally(z, IF HasHead(z, s)
                 THEN longest_match(z, Inserted(s), Chain(z, s), MIN_MATCH - 1)
                 ELSE Inserted(s))
\* deflate_slow, one turn of its loop after the match has been looked for;
\* prev is the state before it.
SlowTally(z, prev, s) ==
    IF prev.match_length >= MIN_MATCH /\ s.match_length <= prev.match_length
    THEN [s EXCEPT !.syms = Append(@, Match(s.strstart - 1 - prev.match_start,
                                            prev.match_length - MIN_MATCH)),
                   !.lookahead = @ - (prev.match_length - 1),
                   !.inserted = @ \cup {p \in (s.strstart + 1)..(s.strstart + prev.match_length - 2) :
                                           p <= s.strstart + s.lookahead - MIN_MATCH},
                   !.match_available = FALSE,
                   !.match_length = MIN_MATCH - 1,
                   !.strstart = @ + prev.match_length - 1]
    ELSE IF s.match_available
    THEN [s EXCEPT !.syms = Append(@, Literal(Window(z.window, s.strstart - 1))),
                   !.strstart = @ + 1, !.lookahead = @ - 1]
    ELSE [s EXCEPT !.match_available = TRUE,
                   !.strstart = @ + 1, !.lookahead = @ - 1]
\* `if (s->match_length <= 5 && (... || (s->match_length == MIN_MATCH &&
\* s->strstart - s->match_start > TOO_FAR)))`
Trimmed(s) ==
    IF s.match_length = MIN_MATCH /\ s.strstart - s.match_start > TOO_FAR
    THEN [s EXCEPT !.match_length = MIN_MATCH - 1] ELSE s
deflate_slow(z, s) ==
    SlowTally(z, s,
              IF HasHead(z, s) /\ s.match_length < z.config.max_lazy
              THEN Trimmed(longest_match(z, Inserted(s), Chain(z, s), s.match_length))
              ELSE [Inserted(s) EXCEPT !.match_length = MIN_MATCH - 1])
\* The loop of deflate_fast or deflate_slow, at most `turns` times
RECURSIVE deflate_loop(_, _, _)
deflate_loop(z, s, turns) ==
    IF turns = 0 \/ s.lookahead = 0 THEN s
    ELSE IF turns = 1
    THEN IF z.config.slow THEN deflate_slow(z, s) ELSE deflate_fast(z, s)
    ELSE deflate_loop(z, deflate_loop(z, s, turns \div 2), turns - turns \div 2)
\* The symbols of the block: the loop to the end of the input, then the
\* literal deflate_slow still holds.
Symbols(z, s) ==
    IF s.match_available
    THEN Append(s.syms, Literal(Window(z.window, s.strstart - 1)))
    ELSE s.syms

\* trees.c, build_tree: the heap of the nodes by frequency, then by depth.
smaller(t, n, m) ==
    \/ t.freq[n] < t.freq[m]
    \/ t.freq[n] = t.freq[m] /\ t.depth[n] <= t.depth[m]
RECURSIVE Sink(_, _, _, _)
Sink(t, heap, v, k) ==
    IF 2 * k > Len(heap) THEN [heap EXCEPT ![k] = v]
    ELSE IF 2 * k < Len(heap) /\ smaller(t, heap[2 * k + 1], heap[2 * k])
    THEN IF smaller(t, v, heap[2 * k + 1]) THEN [heap EXCEPT ![k] = v]
         ELSE Sink(t, [heap EXCEPT ![k] = heap[2 * k + 1]], v, 2 * k + 1)
    ELSE IF smaller(t, v, heap[2 * k]) THEN [heap EXCEPT ![k] = v]
         ELSE Sink(t, [heap EXCEPT ![k] = heap[2 * k]], v, 2 * k)
pqdownheap(t, k) == [t EXCEPT !.heap = Sink(t, t.heap, t.heap[k], k)]
\* `for (n = s->heap_len/2; n >= 1; n--) pqdownheap(s, tree, n)`
RECURSIVE Heapified(_, _, _)
Heapified(t, lo, hi) ==
    IF lo > hi \/ ~Reached(t) THEN t
    ELSE IF lo = hi THEN pqdownheap(t, lo)
    ELSE Heapified(Heapified(t, (lo + hi) \div 2 + 1, hi), lo, (lo + hi) \div 2)
\* The heap with its least node removed (pqremove)
Removed(t) ==
    IF Len(t.heap) = 1 THEN [t EXCEPT !.heap = <<>>]
    ELSE pqdownheap([t EXCEPT !.heap = [i \in 1..(Len(t.heap) - 1) |->
                                           IF i = 1 THEN t.heap[Len(t.heap)]
                                           ELSE t.heap[i]]], 1)
\* One turn of the loop of build_tree: the two least nodes n and m get the
\* parent `node`.
Joined(t, n, m) ==
    pqdownheap([t EXCEPT !.freq[t.node] = t.freq[n] + t.freq[m],
                         !.depth[t.node] = Greatest(t.depth[n], t.depth[m]) + 1,
                         !.dad[n] = t.node, !.dad[m] = t.node,
                         !.heap[1] = t.node,
                         !.sorted = <<m, n>> \o @,
                         !.node = @ + 1], 1)
Paired(t, least) == Joined(least, t.heap[1], least.heap[1])
RECURSIVE Combined(_, _)
Combined(t, turns) ==
    IF turns = 0 \/ ~Reached(t) THEN t
    ELSE IF turns = 1 THEN Paired(t, Removed(t))
    ELSE Combined(Combined(t, turns \div 2), turns - turns \div 2)
\* The codes of a tree that are given a frequency of one because fewer than
\* two are used: `(s->heap_len < 2)`, node = max_code < 2 ? ++max_code : 0.
Forced(used) ==
    IF Cardinality(used) >= 2 THEN {}
    ELSE IF used = {} THEN {0, 1}
    ELSE IF used = {0} THEN {1}
    ELSE IF used = {1} THEN {2}
    ELSE {0}
\* build_tree before its first loop; freq holds the frequencies of the codes
\* 0..elems-1 and `used` the codes of a frequency other than 0.
TreeStart(freq, elems, used) ==
    [freq |-> [n \in 0..(2 * elems) |->
                  IF n \in Forced(used) THEN 1 ELSE IF n < elems THEN freq[n] ELSE 0],
     depth |-> [n \in 0..(2 * elems) |-> 0],
     dad |-> [n \in 0..(2 * elems) |-> 0],
     heap |-> SelectSeq([i \in 1..elems |-> i - 1], LAMBDA n : n \in used)
              \o SelectSeq(<<0, 1, 2>>, LAMBDA n : n \in Forced(used)),
     sorted |-> <<>>, node |-> elems, forced |-> Forced(used),
     max_code |-> Largest(used \cup Forced(used))]
\* `s->heap[--(s->heap_max)] = s->heap[SMALLEST]`: sorted is heap[heap_max..]
Rooted(t) == [t EXCEPT !.sorted = <<t.heap[1]>> \o @]
Grown(t) ==
    Rooted(Combined(Heapified(t, 1, Len(t.heap) \div 2), Len(t.heap) - 1))
\* build_tree up to gen_bitlen
build_tree(freq, elems) ==
    Grown(TreeStart(freq, elems, {n \in 0..(elems - 1) : freq[n] # 0}))
\* gen_bitlen: how far node n lies below the root
RECURSIVE Depth(_, _)
Depth(t, n) == IF n = t.sorted[1] THEN 0 ELSE Depth(t, t.dad[n]) + 1
\* gen_bitlen, `do { ... overflow -= 2; } while (overflow > 0)` on bl_count
Moved(bl_count, max_length, bits) ==
    [b \in DOMAIN bl_count |->
        bl_count[b] + (IF b = bits THEN -1 ELSE 0) + (IF b = bits + 1 THEN 2 ELSE 0)
        + (IF b = max_length THEN -1 ELSE 0)]
RECURSIVE Rebalanced(_, _, _)
Rebalanced(bl_count, max_length, turns) ==
    IF turns = 0 \/ ~Reached(bl_count) THEN bl_count
    ELSE IF turns = 1
    THEN Moved(bl_count, max_length,
               Largest({b \in 1..(max_length - 1) : bl_count[b] # 0}))
    ELSE Rebalanced(Rebalanced(bl_count, max_length, turns \div 2),
                    max_length, turns - turns \div 2)
RECURSIVE Total(_, _, _)
Total(f, lo, hi) ==
    IF lo > hi THEN 0
    ELSE IF lo = hi THEN f[lo]
    ELSE Total(f, lo, (lo + hi) \div 2) + Total(f, (lo + hi) \div 2 + 1, hi)
\* gen_bitlen, its last loop: the leaves from the end of the heap on take
\* the lengths from max_length down, bl_count[bits] of them each.
Relabelled(t, max_length, bl_count, last) ==
    [n \in 0..t.max_code |->
        IF t.freq[n] = 0 THEN 0
        ELSE CHOOSE b \in 1..max_length :
                \E i \in 1..Len(last) :
                   /\ last[i] = n
                   /\ Total(bl_count, b + 1, max_length) < i
                   /\ i <= Total(bl_count, b, max_length)]
Bitlen(t, max_length, lens, overflow) ==
    IF overflow = 0 THEN lens
    ELSE Relabelled(t, max_length,
             Rebalanced([b \in 1..max_length |->
                            Cardinality({n \in DOMAIN lens : lens[n] = b})],
                        max_length, (overflow + 1) \div 2),
             SelectSeq([i \in 1..Len(t.sorted) |-> t.sorted[Len(t.sorted) + 1 - i]],
                       LAMBDA n : n <= t.max_code))
\* gen_bitlen: the bit length of every code 0..max_code (0 for an unused one)
gen_bitlen(t, max_length) ==
    Bitlen(t, max_length,
           [n \in 0..t.max_code |->
               IF t.freq[n] = 0 THEN 0 ELSE Least(Depth(t, n), max_length)],
           Cardinality({i \in 2..Len(t.sorted) : Depth(t, t.sorted[i]) > max_length}))
\* gen_codes: next_code[bits], then the code of every used code, its first
\* bit first
RECURSIVE next_code(_, _)
next_code(lens, bits) ==
    IF bits <= 1 THEN 0
    ELSE 2 * (next_code(lens, bits - 1)
              + Cardinality({n \in DOMAIN lens : lens[n] = bits - 1}))
Coded(lens, first) ==
    [n \in DOMAIN lens |->
        IF lens[n] = 0 THEN <<>>
        ELSE [i \in 1..lens[n] |->
                 ((first[lens[n]]
                   + Cardinality({m \in DOMAIN lens : m < n /\ lens[m] = lens[n]}))
                  \div 2^(lens[n] - i)) % 2]]
gen_codes(lens) == Coded(lens, [bits \in 1..MAX_BITS |-> next_code(lens, bits)])
static_lcodes == gen_codes(static_ltree)
static_dcodes == gen_codes(static_dtree)

\* scan_tree and send_tree, one turn of the loop: the code length of code n
\* joins the run or ends it.  An entry of out is a code of the bit length
\* tree with its extra bits.
RunCode(code, extra, nbits) == [code |-> code, extra |-> extra, nbits |-> nbits]
Repeated(entry, count) == [i \in 1..count |-> entry]
Counts(r, curlen, nextlen) ==
    [r EXCEPT !.count = 0, !.prevlen = curlen,
              !.max_count = IF nextlen = 0 THEN 138 ELSE IF curlen = nextlen THEN 6 ELSE 7,
              !.min_count = IF nextlen = 0 \/ curlen = nextlen THEN 3 ELSE 4]
Scanned(r, curlen, nextlen) ==
    IF r.count + 1 < r.max_count /\ curlen = nextlen
    THEN [r EXCEPT !.count = @ + 1]
    ELSE Counts(
        IF r.count + 1 < r.min_count
        THEN [r EXCEPT !.out = @ \o Repeated(RunCode(curlen, 0, 0), r.count + 1)]
        ELSE IF curlen # 0
        THEN IF curlen # r.prevlen
             THEN [r EXCEPT !.out = @ \o <<RunCode(curlen, 0, 0),
                                           RunCode(REP_3_6, r.count - 3, 2)>>]
             ELSE [r EXCEPT !.out = Append(@, RunCode(REP_3_6, r.count + 1 - 3, 2))]
        ELSE IF r.count + 1 <= 10
        THEN [r EXCEPT !.out = Append(@, RunCode(REPZ_3_10, r.count + 1 - 3, 3))]
        ELSE [r EXCEPT !.out = Append(@, RunCode(REPZ_11_138, r.count + 1 - 11, 7))],
        curlen, nextlen)
RECURSIVE ScanRange(_, _, _, _)
ScanRange(r, lens, lo, hi) ==
    IF lo > hi \/ ~Reached(r) THEN r
    ELSE IF lo = hi
    THEN Scanned(r, lens[lo], IF lo + 1 \in DOMAIN lens THEN lens[lo + 1] ELSE 65535)
    ELSE ScanRange(ScanRange(r, lens, lo, (lo + hi) \div 2),
                   lens, (lo + hi) \div 2 + 1, hi)
\* scan_tree(tree, max_code): lens holds the lengths of 0..max_code
scan_tree(lens) ==
    ScanRange([count |-> 0, prevlen |-> -1,
               max_count |-> IF lens[0] = 0 THEN 138 ELSE 7,
               min_count |-> IF lens[0] = 0 THEN 3 ELSE 4, out |-> <<>>],
              lens, 0, Largest(DOMAIN lens)).out

\* The bits of a sequence of bit strings, one after another
RECURSIVE Flattened(_, _, _)
Flattened(strings, lo, hi) ==
    IF lo > hi THEN <<>>
    ELSE IF lo = hi THEN strings[lo]
    ELSE Flattened(strings, lo, (lo + hi) \div 2)
         \o Flattened(strings, (lo + hi) \div 2 + 1, hi)
Concat(strings) == Flattened(strings, 1, Len(strings))
\* compress_block: the symbols under the literal and the distance codes
SentSymbol(sym, ltree, dtree) ==
    IF sym.dist = 0 THEN ltree[sym.lc]
    ELSE ltree[length_code(sym.lc) + LITERALS + 1]
         \o Bits(sym.lc - base_length[length_code(sym.lc) + 1],
                 extra_lbits[length_code(sym.lc) + 1])
         \o dtree[d_code(sym.dist - 1)]
         \o Bits(sym.dist - 1 - base_dist[d_code(sym.dist - 1) + 1],
                 extra_dbits[d_code(sym.dist - 1) + 1])
compress_block(syms, ltree, dtree) ==
    Concat([i \in 1..Len(syms) |-> SentSymbol(syms[i], ltree, dtree)])
    \o ltree[END_BLOCK]

\* The frequencies _tr_tally has counted when the block is flushed
LiteralFreq(syms) ==
    [n \in 0..(L_CODES - 1) |->
        IF n = END_BLOCK THEN 1
        ELSE Cardinality({i \in DOMAIN syms :
                IF syms[i].dist = 0 THEN syms[i].lc = n
                ELSE n > LITERALS /\ length_code(syms[i].lc) + LITERALS + 1 = n})]
DistFreq(syms) ==
    [n \in 0..(D_CODES - 1) |->
        Cardinality({i \in DOMAIN syms :
                        syms[i].dist # 0 /\ d_code(syms[i].dist - 1) = n})]
\* The frequencies of the codes of the bit length tree (scan_tree)
BlFreq(runs) ==
    [n \in 0..(BL_CODES - 1) |-> Cardinality({i \in DOMAIN runs : runs[i].code = n})]
\* What gen_bitlen adds up: the bits of the codes under the lengths lens,
\* with the extra bits of the tree's descriptor.
CodedLength(t, lens, extra, base) ==
    Total([n \in 0..t.max_code |->
              IF t.freq[n] = 0 THEN 0
              ELSE t.freq[n] * (lens[n] + IF n >= base THEN extra[n - base + 1] ELSE 0)],
          0, t.max_code)
\* opt_len and static_len of one tree; build_tree has taken a forced code off
\* both (`s->opt_len--; if (stree) s->static_len -= stree[node].Len`).
OptLength(t, lens, extra, base) ==
    CodedLength(t, lens, extra, base) - Cardinality(t.forced)
StaticLength(t, stree, extra, base) ==
    CodedLength(t, stree, extra, base)
    - Total([n \in 0..t.max_code |-> IF n \in t.forced THEN stree[n] ELSE 0],
            0, t.max_code)
LengthOf(lens, n) == IF n \in DOMAIN lens THEN lens[n] ELSE 0
\* _tr_flush_block: build_tree(l_desc), build_tree(d_desc), build_bl_tree
BlockTrees(syms) ==
    [lt |-> build_tree(LiteralFreq(syms), L_CODES),
     dt |-> build_tree(DistFreq(syms), D_CODES)]
BlockLengths(b) ==
    b @@ [llens |-> gen_bitlen(b.lt, MAX_BITS), dlens |-> gen_bitlen(b.dt, MAX_BITS)]
BlockRuns(b) == b @@ [runs |-> scan_tree(b.llens) \o scan_tree(b.dlens)]
BlTree(b) == b @@ [bt |-> build_tree(BlFreq(b.runs), BL_CODES)]
BlLengths(b) == b @@ [bllens |-> gen_bitlen(b.bt, MAX_BL_BITS)]
build_bl_tree(b) ==
    b @@ [max_blindex |->
             Largest({3} \cup {i \in 3..(BL_CODES - 1) :
                                  LengthOf(b.bllens, bl_order[i + 1]) # 0})]
BlockCost(b) ==
    b @@ [opt_len |-> OptLength(b.lt, b.llens, extra_lbits, LITERALS + 1)
                      + OptLength(b.dt, b.dlens, extra_dbits, 0)
                      + OptLength(b.bt, b.bllens, extra_blbits, 0)
                      + 3 * (b.max_blindex + 1) + 5 + 5 + 4,
          static_len |-> StaticLength(b.lt, static_ltree, extra_lbits, LITERALS + 1)
                         + StaticLength(b.dt, static_dtree, extra_dbits, 0)]
\* send_all_trees and compress_block(dyn_ltree, dyn_dtree)
SentRun(run, bl_tree) == bl_tree[run.code] \o Bits(run.extra, run.nbits)
send_all_trees(b, bl_tree) ==
    Bits(b.lt.max_code + 1 - 257, 5) \o Bits(b.dt.max_code + 1 - 1, 5)
    \o Bits(b.max_blindex + 1 - 4, 4)
    \o Concat([rank \in 1..(b.max_blindex + 1) |->
                  Bits(LengthOf(b.bllens, bl_order[rank]), 3)])
    \o Concat([i \in 1..Len(b.runs) |-> SentRun(b.runs[i], bl_tree)])
\* _tr_stored_block: the block type, the length and its complement, the bytes
tr_stored_block(octets) ==
    <<1>> \o LittleEndian(Len(octets), 2) \o LittleEndian(65535 - Len(octets), 2)
    \o octets
\* _tr_flush_block(s, buf, stored_len, last = 1) from the choice of the block
\* on; opt_lenb is (opt_len + 3 + 7) >> 3 and static_lenb likewise.
FlushedBlock(octets, syms, b, opt_lenb, static_lenb) ==
    IF Len(octets) + 4 <= Least(opt_lenb, static_lenb) THEN tr_stored_block(octets)
    ELSE IF static_lenb <= opt_lenb
    THEN Packed(Bits(3, 3) \o compress_block(syms, static_lcodes, static_dcodes))
    ELSE Packed(Bits(5, 3) \o send_all_trees(b, gen_codes(b.bllens))
                \o compress_block(syms, gen_codes(b.llens), gen_codes(b.dlens)))
Flushed(octets, syms, b) ==
    FlushedBlock(octets, syms, b, (b.opt_len + 3 + 7) \div 8,
                 (b.static_len + 3 + 7) \div 8)
tr_flush_block(octets, syms) ==
    Flushed(octets, syms,
            BlockCost(build_bl_tree(BlLengths(BlTree(BlockRuns(BlockLengths(
                BlockTrees(syms))))))))
\* deflate(strm, Z_FINISH) at the level of z
Deflated(z) ==
    tr_flush_block(z.window, Symbols(z, deflate_loop(z, lm_init(z), Len(z.window))))
deflate(octets, level) == Deflated(Stream(octets, level))

\* A bytes object as octets, and back
ByteTable == [n \in 0..255 |-> chr(n)]
Octets(data)  == [i \in DOMAIN data |-> ord(data[i])]
Bytes(octets) == [i \in DOMAIN octets |-> ByteTable[octets[i]]]
\* The bodies compressed here, their octets and streams worked out once
Ziplevels == 1..9
Zipped ==
    [data \in {<<>>, <<"o","k">>, <<"m","a","d","e">>} |->
        [level \in Ziplevels |->
            [stream |-> deflate(Octets(data), level), crc |-> crc32(Octets(data))]]]
\* zlib.compress(data, level, wbits=-15) and the trailer
\* struct.pack('<LL', zlib.crc32(data), len(data) & 0xffffffff)
zlib_compress(data, level) ==
    IF data \in DOMAIN Zipped THEN Zipped[data][level].stream
    ELSE deflate(Octets(data), level)
Trailer(data) ==
    (IF data \in DOMAIN Zipped THEN Zipped[data][1].crc ELSE crc32(Octets(data)))
    \o LittleEndian(Len(data), 4)
\* gzip._create_simple_gzip_header(compresslevel, mtime), mtime being
\* int(time.time()): struct.pack('<BBBBLBB', 0x1f, 0x8b, 8, 0, mtime, xfl, 255)
create_simple_gzip_header(compresslevel, mtime) ==
    <<31, 139, 8, 0>> \o LittleEndian(mtime, 4)
    \o <<IF compresslevel = 9 THEN 2 ELSE IF compresslevel = 1 THEN 4 ELSE 0, 255>>
\* gzip.compress(data, level) called at the time mtime (seconds, below 2^31)
\* with a level of 1 to 9
gzip_compress(data, level, mtime) ==
    Bytes(create_simple_gzip_header(level, mtime) \o zlib_compress(data, level)
          \o Trailer(data))
\* time.time() when dispatch compresses: some seconds of 2026-10-31
Clock == {1793404800, 1793404801}

(***************************************************************************)
(* Server.dispatch and Server.handle: one task per accepted socket         *)
(***************************************************************************)
\* loop.sock_recv(self.client, 512)
RecvChunk == 512


\* What a route handler can do: return None, a raw body, a (status, body)
\* pair, or raise.
RetNone         == [kind |-> "none", status |-> 0, body |-> <<>>]
RetRaw(b)       == [kind |-> "raw", status |-> 0, body |-> b]
RetPair(st, b)  == [kind |-> "pair", status |-> st, body |-> b]
RetRaise        == [kind |-> "raise", status |-> 0, body |-> <<>>]

\* The task created by loop.create_task(self.handle(client)), suspended at
\* the first sock_recv of Connection.read.  stream is what the peer sends,
\* rest the part of it not received yet.
NewTask(stream) ==
    [pc |-> "recv_headers", stream |-> stream, rest |-> stream, peer |-> "up",
     temp_buf |-> <<>>, to_read |-> <<>>, buf |-> <<>>,
     conn |-> NewConnection, route |-> None, ret |-> None,
     out |-> <<>>, code |-> None, sock |-> "open", sent |-> <<>>,
     handler_calls |-> 0, lookups |-> 0, exc |-> ""]

TaskEnded(t) == t.pc \in {"done", "failed"}

\* An exception leaves handle: the task ends and nothing after the raise runs.
Fail(t, e) == [t EXCEPT !.pc = "failed", !.exc = e]

\* handle, the missing-Host branch: client.shutdown(SHUT_RDWR); client.close();
\* return.  shutdown raises OSError when the peer has reset the connection.
CloseNoHost(t, shut_ok) ==
    IF shut_ok THEN [t EXCEPT !.sock = "closed", !.pc = "done"]
    ELSE Fail(t, "OSError")

\* handle, the end: try: shutdown; close / except socket.error: pass
CloseQuietly(t, shut_ok) ==
    IF shut_ok THEN [t EXCEPT !.sock = "closed", !.pc = "done"]
    ELSE [t EXCEPT !.pc = "done"]

\* dispatch -> conn.send(code, resp), up to the await of sock_sendall
SendAwait(t, code, s) ==
    [t EXCEPT !.conn = s.conn, !.out = s.response,
              !.code = Some(code), !.pc = "sendall"]
SendStart(t, code, body) ==
    IF ~IsHTTPStatus(code) THEN Fail(t, "ValueError")
    ELSE SendAwait(t, code, send(t.conn, code, body))

\* dispatch inside `if resp is not None`, from the unpacking of resp on; now
\* is the time at which gzip.compress is called.  A level above 9 makes
\* gzip.compress raise zlib.error.
Respond(t, resp, gz, now) ==
    IF gz > 9 THEN Fail(t, "zlib.error")
    ELSE SendStart(
             IF gz > 0
             THEN [t EXCEPT !.conn = add_resp_header(@, S_ContentEncoding, -1)]
             ELSE t,
             IF resp.kind = "pair" THEN resp.status ELSE 200,
             IF gz > 0 THEN gzip_compress(resp.body, gz, now) ELSE resp.body)

\* `await route.handler(conn) or b''`
OrEmpty(ret) ==
    IF ret.kind = "none" \/ (ret.kind = "raw" /\ ret.body = <<>>)
    THEN RetRaw(<<>>) ELSE ret

\* dispatch resumed when the handler has finished with ret
AfterHandler(t, ret, gz, now) ==
    IF ret.kind = "raise" THEN Fail([t EXCEPT !.ret = Some(ret)], "Exception")
    ELSE Respond([t EXCEPT !.ret = Some(ret)], OrEmpty(ret), gz, now)

\* Fault: dispatch with `resp = b''` in place of `resp = None` before the
\* lookups, so that an unrouted request is answered like an empty body.
RoutedEmptyDefault(t, route, gz) ==
    IF route # None
    THEN [t EXCEPT !.pc = "handler", !.route = route,
                   !.handler_calls = @ + 1, !.lookups = @ + 1]
    ELSE Respond([t EXCEPT !.lookups = @ + 1], RetRaw(<<>>), gz,
                 CHOOSE now \in Clock : TRUE)

\* dispatch once find_route has answered; without a route it goes on at
\* `else: code, resp = 404, b'Not Found.'`
Routed(t, route, gz) ==
    IF route # None
    THEN [t EXCEPT !.pc = "handler", !.route = route,
                   !.handler_calls = @ + 1, !.lookups = @ + 1]
    ELSE SendStart([t EXCEPT !.lookups = @ + 1], 404, S_NotFound)

\* dispatch once find_domain has answered
InDomain(t, domain, gz) ==
    Routed(t,
           IF domain # None
           THEN find_route(domain[1], t.conn.path, t.conn.cmd)
           ELSE None,
           gz)

\* Server.dispatch up to the await of the handler
dispatch(t, doms, gz) ==
    InDomain(t, find_domain(doms, CID_getitem(t.conn.headers, S_Host)), gz)

\* shutdown() on the socket raises only when the peer is gone.
ShutOutcomes(t) == IF t.peer = "gone" THEN {TRUE, FALSE} ELSE {TRUE}

\* Connection.read is left, by return or by an exception: its locals
\* temp_buf, buf and to_read are no more.
ReadLeft(t) == [t EXCEPT !.temp_buf = <<>>, !.buf = <<>>, !.to_read = <<>>]
ReadFail(t, e) == Fail(ReadLeft(t), e)

\* From here on a step of the task is the set of the tasks it can lead to:
\* one for each outcome of shutdown() and of breakpoint() that it reaches.
\* Server.handle once Connection.read has returned
Handle(t, doms, gz) ==
    IF ~CID_contains(t.conn.headers, S_Host)
    THEN {CloseNoHost(t, shut_ok) : shut_ok \in ShutOutcomes(t)}
    ELSE {dispatch(t, doms, gz)}
AfterRead(t, doms, gz) == Handle(ReadLeft(t), doms, gz)

\* Connection.read once parse_multipart has returned or raised
AfterMultipart(t, r, doms, gz) ==
    IF r.exc # "" THEN {ReadFail([t EXCEPT !.conn = r.conn], r.exc)}
    ELSE AfterRead([t EXCEPT !.conn = r.conn], doms, gz)

\* Connection.read once self.body is set: the POST branch
AfterBody(t, doms, gz) ==
    IF /\ t.conn.cmd = S_POST
       /\ CID_contains(t.conn.headers, S_Content_Type)
       /\ StartsWithAt(CID_getitem(t.conn.headers, S_Content_Type), S_multipart, 1)
    THEN UNION {AfterMultipart(t,
                               IF t.conn \in UploadConns
                               THEN ParsedUploads[t.conn][dbg]
                               ELSE parse_multipart(t.conn, dbg),
                               doms, gz) : dbg \in DebuggerOutcomes}
    ELSE AfterRead(t, doms, gz)

\* to_read, the count of body bytes still to come, is held as its decimal
\* digits, most significant first and without leading zeros: zero is <<>>.

\* `buf = bytearray(to_read)` of a buffer of more than WordDigits digits of
\* bytes: whether the memory is there depends on the machine, so that the
\* call returns or raises MemoryError.  (A smaller buffer is taken to be
\* there.)  The task stands at the call, with pc "bytearray", until the
\* step that reached it has chosen.
Allocated(t) ==
    IF t.pc # "bytearray" THEN {t}
    ELSE {ReadFail(t, "MemoryError"), [t EXCEPT !.pc = "recv_body"]}

\* Connection.read, the Content-Length branch for a length of more than
\* WordDigits digits, which is not already_read.  bytearray() raises
\* ValueError for a negative count, and OverflowError for one outside
\* -sys.maxsize - 1 .. sys.maxsize.
ReadBeyond(t, content_length) ==
    IF content_length.neg
    THEN ReadFail(t, IF BigLess(BigPlus(sys_maxsize, 1),
                                BigPlus(content_length.digits, Len(t.temp_buf)))
                     THEN "OverflowError" ELSE "ValueError")
    ELSE IF BigLess(sys_maxsize, BigMinus(content_length.digits, Len(t.temp_buf)))
    THEN ReadFail(t, "OverflowError")
    ELSE [t EXCEPT !.to_read = BigMinus(content_length.digits, Len(t.temp_buf)),
                   !.pc = IF Len(BigMinus(content_length.digits,
                                          Len(t.temp_buf))) <= WordDigits
                          THEN "recv_body" ELSE "bytearray"]

\* Connection.read, the Content-Length branch: temp_buf holds what followed
\* the headers.
ReadBody(t, content_length, doms, gz) ==
    IF ~Fits(content_length) THEN Allocated(ReadBeyond(t, content_length))
    ELSE IF Small(content_length) < Len(t.temp_buf) THEN {ReadFail(t, "ValueError")}
    ELSE IF Len(t.temp_buf) # Small(content_length)
    THEN {[t EXCEPT !.to_read = DigitsOf(Small(content_length) - Len(t.temp_buf)),
                    !.pc = "recv_body"]}
    ELSE AfterBody([t EXCEPT !.conn.body = Some(t.temp_buf)], doms, gz)

\* Connection.read from `content_length = int(self.headers['Content-Length'])`
\* on, with the value of the header
WithLength(t, length, doms, gz) ==
    IF ~IsDecimal(length) THEN {ReadFail(t, "ValueError")}
    ELSE ReadBody(t, int(length), doms, gz)

\* Connection.read once parse_headers has returned
AfterParse(t, delim, doms, gz) ==
    IF ~CID_contains(t.conn.headers, S_Content_Length)
    THEN AfterRead(t, doms, gz)
    ELSE WithLength([t EXCEPT !.temp_buf = SliceFrom(@, delim + 4)],
                    CID_getitem(t.conn.headers, S_Content_Length), doms, gz)

\* Connection.read once temp_buf[:delim].decode() has returned or raised
\* and parse_headers has run on the text: parsed is an Optional
AfterDecode(t, parsed, delim, doms, gz) ==
    IF parsed = None THEN {ReadFail(t, "UnicodeDecodeError")}
    ELSE AfterParse([t EXCEPT !.conn = parsed[1]], delim, doms, gz)

\* Connection.read once delim = temp_buf.find(b'\r\n\r\n') is known
AfterDelim(t, delim, doms, gz) ==
    AfterDecode(t,
                IF t.conn = NewConnection /\ SliceTo(t.temp_buf, delim) \in HeaderBlocks
                THEN ParsedBlocks[SliceTo(t.temp_buf, delim)]
                ELSE Decoded(t.conn, SliceTo(t.temp_buf, delim)),
                delim, doms, gz)

\* The header loop after one sock_recv: b'\r\n\r\n' is in temp_buf when
\* temp_buf.find(b'\r\n\r\n') is not -1
AfterHeaders(t, delim, doms, gz) ==
    IF delim = -1 THEN {t} ELSE AfterDelim(t, delim, doms, gz)
HeadersReceived(t, doms, gz) ==
    AfterHeaders(t, find(t.temp_buf, CRLFCRLF), doms, gz)

\* One sock_recv of the header loop delivering n bytes
RecvHeadersStep(t, n, doms, gz) ==
    HeadersReceived([t EXCEPT !.temp_buf = @ \o SubSeq(t.rest, 1, n),
                              !.rest = SubSeq(@, n + 1, Len(@))],
                    doms, gz)

\* The body loop after one sock_recv_into
BodyReceived(t, doms, gz) ==
    IF t.to_read # <<>> THEN {t}
    ELSE AfterBody([t EXCEPT !.conn.body = Some(t.temp_buf \o t.buf)], doms, gz)

\* One sock_recv_into of the body loop delivering n bytes
RecvBodyStep(t, n, doms, gz) ==
    BodyReceived([t EXCEPT !.buf = @ \o SubSeq(t.rest, 1, n),
                           !.rest = SubSeq(@, n + 1, Len(@)),
                           !.to_read = BigMinus(@, n)],
                 doms, gz)

\* Connection.send resumed when sock_sendall has finished, then the rest of
\* dispatch and handle.  Only BrokenPipeError is caught by send.
Sent(t, outcome, shut_ok) ==
    IF outcome \in {"ok", "BrokenPipeError"} THEN CloseQuietly(t, shut_ok)
    ELSE Fail(t, outcome)
AfterSend(t, outcome, shut_ok) ==
    Sent([t EXCEPT !.sent = Append(@, [data |-> t.out, ok |-> outcome = "ok"])],
         outcome, shut_ok)

(***************************************************************************)
(* The embedding application: its domains and routes                       *)
(***************************************************************************)
\* @domain.route('/')  (methods default to ['GET'])
Route_index == [id |-> 1, kind |-> "str", path |-> {P_root},
                methods |-> <<S_GET>>, handler |-> "index"]
\* @domain.route({'/q', '/r'}, methods=['GET', 'HEAD'])
Route_q     == [id |-> 2, kind |-> "iter", path |-> {P_q, P_r},
                methods |-> <<S_GET, S_HEAD>>, handler |-> "q"]
\* @domain.route('/u', methods=['POST'])
Route_upload == [id |-> 3, kind |-> "str", path |-> {P_u},
                 methods |-> <<S_POST>>, handler |-> "upload"]
\* Domain('a') and Domain({'a', 'c'}): both match the hostname 'a'.
Domain_a  == [id |-> 1, kind |-> "str", hostname |-> {H_a},
              routes |-> SetOf(<<Route_index, Route_upload>>)]
Domain_ac == [id |-> 2, kind |-> "iter", hostname |-> {H_a, H_c},
              routes |-> SetOf(<<Route_q>>)]

\* The orders in which a domain's routes can lie in its set
RouteOrders(domain) ==
    {[domain EXCEPT !.routes = SetOf(order)] :
        order \in Arrangements(Members(domain.routes))}

\* Server.domains once the two domains are registered: the orders in which
\* they and their routes can lie.
DomainOrders ==
    UNION {{SetOf(order) : order \in Arrangements({a, ac})} :
              a \in RouteOrders(Domain_a), ac \in RouteOrders(Domain_ac)}

(***************************************************************************)
(* State                                                                   *)
(***************************************************************************)
VARIABLES
    gzip,              \* Server.gzip
    before_serving,    \* Server.before_serving is set
    after_serving,     \* Server.after_serving is set
    sigusr1_restart,   \* run(..., sigusr1_restart=...)
    domains,           \* Server.domains
    rerun,             \* Server.domains in a second run of the program that
                       \* makes the same calls, None when only one run is
                       \* followed
    task_coros,        \* Server._task_coros
    tasks,             \* Server.tasks: task -> its state
    loop,              \* the event loop: "new", "running", "stopped" once
                       \* loop.stop() is called, "closed" once run_forever has
                       \* returned and the loop is closed, or "blocked" inside
                       \* a callback that never returns
    runner_task,       \* Server._runner_task: [pc, must_cancel]
    shutdown_reqs,     \* Server._shutdown_reqs
    shutdowns,         \* signals whose shutdown task is created and has not run
    startable,         \* how many of them, from the head, the loop will still
                       \* start: those created before loop.stop()
    shutdown_task,     \* the shutdown task of the first request: [sig, pc]
    should_restart,    \* __should_restart
    execv,             \* os.execv has replaced the process image
    conns,             \* the tasks created by the accept loop
    cached,            \* the closure of a function wrapped with async_cache,
                       \* None before the function is wrapped
    limited,           \* the closure of a function wrapped with ratelimit,
                       \* None before the function is wrapped
    events             \* the lifecycle steps taken so far, in order

vars == <<gzip, before_serving, after_serving, sigusr1_restart, domains, rerun,
          task_coros, tasks, loop, runner_task, shutdown_reqs, shutdowns,
          startable, shutdown_task, should_restart, execv, conns, events, cached, limited>>

server  == <<gzip, before_serving, after_serving, sigusr1_restart, domains,
             rerun>>
config  == <<server, cached, limited>>
lifevars == <<task_coros, tasks, loop, runner_task, shutdown_reqs, shutdowns,
              startable, shutdown_task, should_restart, execv, events>>

\* Bounds of the model
MaxConns   == 1    \* connections accepted in Spec
MaxSignals == 2    \* signals delivered in Spec
MaxCoros   == 1    \* coroutines registered with add_pending_task

\* Server.__init__ followed by the application's configuration, in the one
\* run or the two runs reruns names.
InitRuns(gzips, hooks, restarts, orders, coros, reruns) ==
    /\ gzip \in gzips
    /\ before_serving \in hooks
    /\ after_serving \in hooks
    /\ sigusr1_restart \in restarts
    /\ domains \in orders
    /\ rerun \in reruns
    /\ task_coros = coros
    /\ tasks = [i \in {} |-> "running"]
    /\ loop = "new"
    /\ runner_task = [pc |-> "none", must_cancel |-> FALSE]
    /\ shutdown_reqs = 0
    /\ shutdowns = <<>>
    /\ startable = 0
    /\ shutdown_task = [sig |-> "", pc |-> "none"]
    /\ should_restart = FALSE
    /\ execv = FALSE
    /\ conns = <<>>
    /\ events = <<>>
    /\ cached = None
    /\ limited = None

\* One run of the program
InitServer(gzips, hooks, restarts, orders, coros) ==
    InitRuns(gzips, hooks, restarts, orders, coros, {None})

(***************************************************************************)
(* Server.run: the runner task                                             *)
(***************************************************************************)
\* run(): self._runner_task = loop.create_task(runner()); loop.run_forever()
Run ==
    /\ loop = "new"
    /\ loop' = "running"
    /\ runner_task' = [pc |-> "created", must_cancel |-> FALSE]
    /\ UNCHANGED <<config, task_coros, tasks, shutdown_reqs, shutdowns, startable, shutdown_task,
                   should_restart, execv, conns, events>>

\* Fault: a runner that forgets the pending coroutines instead of starting
\* them.
RunnerListenNoTasks ==
    /\ tasks' = tasks
    /\ task_coros' = {}
    /\ runner_task' = [runner_task EXCEPT !.pc = "accepting"]

\* runner from "Start pending coroutine tasks" to the first sock_accept
RunnerListen ==
    /\ tasks' = [i \in (DOMAIN tasks) \cup task_coros |->
                    IF i \in DOMAIN tasks THEN tasks[i] ELSE "running"]
    /\ task_coros' = {}
    /\ runner_task' = [runner_task EXCEPT !.pc = "accepting"]

\* runner's first step: await before_serving() when it is set
RunnerStart ==
    /\ loop = "running"
    /\ runner_task.pc = "created"
    /\ ~runner_task.must_cancel
    /\ IF before_serving
       THEN /\ runner_task' = [runner_task EXCEPT !.pc = "before_serving"]
            /\ events' = Append(events, "before_serving")
            /\ UNCHANGED <<tasks, task_coros>>
       ELSE /\ RunnerListen
            /\ events' = Append(events, "listening")
    /\ UNCHANGED <<config, loop, shutdown_reqs, shutdowns, startable, shutdown_task, should_restart,
                   execv, conns>>

\* before_serving() has returned
RunnerAfterHook ==
    /\ loop = "running"
    /\ runner_task.pc = "before_serving"
    /\ ~runner_task.must_cancel
    /\ RunnerListen
    /\ events' = Append(events, "listening")
    /\ UNCHANGED <<config, loop, shutdown_reqs, shutdowns, startable, shutdown_task, should_restart,
                   execv, conns>>

\* The runner resumes after _runner_task.cancel(): CancelledError is raised
\* at its await, the `with socket` block closes the listener, the task ends.
RunnerCancelled ==
    /\ loop = "running"
    /\ runner_task.must_cancel
    /\ runner_task.pc \in {"created", "before_serving", "accepting"}
    /\ runner_task' = [runner_task EXCEPT !.pc = "cancelled"]
    /\ UNCHANGED <<config, task_coros, tasks, loop, shutdown_reqs, shutdowns, startable, shutdown_task,
                   should_restart, execv, conns, events>>

\* Fault: a runner that goes on accepting although it has been cancelled.
AcceptWhenCancelled(streams, max) ==
    /\ loop = "running"
    /\ runner_task.pc = "accepting"
    /\ Len(conns) < max
    /\ \E s \in streams : conns' = Append(conns, NewTask(s))
    /\ UNCHANGED <<config, lifevars>>

\* Fault: an accept loop that awaits each handler before the next accept.
AcceptSerial(streams, max) ==
    /\ loop = "running"
    /\ runner_task.pc = "accepting"
    /\ ~runner_task.must_cancel
    /\ \A c \in DOMAIN conns : conns[c].pc \in {"done", "failed"}
    /\ Len(conns) < max
    /\ \E s \in streams : conns' = Append(conns, NewTask(s))
    /\ UNCHANGED <<config, lifevars>>

\* client, _ = await loop.sock_accept(sock); loop.create_task(self.handle(client))
Accept(streams, max) ==
    /\ loop = "running"
    /\ runner_task.pc = "accepting"
    /\ ~runner_task.must_cancel
    /\ Len(conns) < max
    /\ \E s \in streams : conns' = Append(conns, NewTask(s))
    /\ UNCHANGED <<config, lifevars>>

\* Task management.  Coroutines and tasks are named by numbers; a coroutine
\* started by the runner becomes the task of the same number.  The
\* application registers pending coroutines before run() and hands tasks
\* of its own to the server before the first shutdown request.
\* add_pending_task(coro): self._task_coros.add(coro)
AddPendingTask(i) ==
    /\ loop = "new"
    /\ task_coros' = task_coros \cup {i}
    /\ UNCHANGED <<config, tasks, loop, runner_task, shutdown_reqs, shutdowns, startable,
                   shutdown_task, should_restart, execv, conns, events>>

\* remove_pending_task(coro): self._task_coros.remove(coro), a KeyError
\* when the coroutine is not pending
RemovePendingTask(i) ==
    /\ loop = "new"
    /\ IF i \in task_coros THEN task_coros' = task_coros \ {i}
       ELSE UNCHANGED task_coros
    /\ UNCHANGED <<config, tasks, loop, runner_task, shutdown_reqs, shutdowns, startable,
                   shutdown_task, should_restart, execv, conns, events>>

\* add_task(task): self.tasks.add(task), for a task that is running
AddTask(j) ==
    /\ loop = "running"
    /\ shutdown_reqs = 0 /\ shutdowns = <<>>
    /\ j \notin DOMAIN tasks
    /\ tasks' = [i \in (DOMAIN tasks) \cup {j} |->
                    IF i = j THEN "running" ELSE tasks[i]]
    /\ UNCHANGED <<config, task_coros, loop, runner_task, shutdown_reqs,
                   shutdowns, startable, shutdown_task, should_restart, execv, conns, events>>

\* remove_task(task): self.tasks.remove(task), a KeyError when it is not
\* in the set
RemoveTask(j) ==
    /\ loop = "running"
    /\ shutdown_reqs = 0 /\ shutdowns = <<>>
    /\ IF j \in DOMAIN tasks
       THEN tasks' = [i \in (DOMAIN tasks) \ {j} |-> tasks[i]]
       ELSE UNCHANGED tasks
    /\ UNCHANGED <<config, task_coros, loop, runner_task, shutdown_reqs,
                   shutdowns, startable, shutdown_task, should_restart, execv, conns, events>>

\* A background task ends by itself.
TaskFinish(i) ==
    /\ loop = "running"
    /\ tasks[i] = "running"
    /\ tasks' = [tasks EXCEPT ![i] = "finished"]
    /\ UNCHANGED <<config, task_coros, loop, runner_task, shutdown_reqs,
                   shutdowns, startable, shutdown_task, should_restart, execv, conns, events>>

\* A background task resumes after task.cancel() and ends cancelled.
TaskCancelled(i) ==
    /\ loop = "running"
    /\ tasks[i] = "cancelling"
    /\ tasks' = [tasks EXCEPT ![i] = "cancelled"]
    /\ UNCHANGED <<config, task_coros, loop, runner_task, shutdown_reqs,
                   shutdowns, startable, shutdown_task, should_restart, execv, conns, events>>

(***************************************************************************)
(* Server.run: signals and shutdown                                        *)
(***************************************************************************)
\* signals = [SIGHUP, SIGTERM, SIGINT] (+ SIGUSR1 when sigusr1_restart)
Signals == {"SIGHUP", "SIGTERM", "SIGINT"}
           \cup (IF sigusr1_restart THEN {"SIGUSR1"} ELSE {})

\* loop.stop() only sets a flag: run_forever returns at the end of the
\* iteration of the loop in which it was called, after the callbacks that
\* were ready in that iteration have run.  A callback scheduled by one of
\* them (the first step of a task it creates) is never run.
Turning == loop \in {"running", "stopped"}

\* The callback of loop.add_signal_handler: asyncio.create_task(shutdown(s, loop)).
\* The loop runs the first steps of the tasks so created in creation order.
Signal(sig) ==
    /\ Turning
    /\ sig \in Signals
    /\ shutdown_reqs + Len(shutdowns) < MaxSignals
    /\ shutdowns' = Append(shutdowns, sig)
    /\ startable' = IF loop = "running" THEN startable + 1 ELSE startable
    /\ UNCHANGED <<config, task_coros, tasks, loop, runner_task, shutdown_reqs,
                   shutdown_task, should_restart, execv, conns, events>>

\* Fault: a shutdown that never asks for a restart.
ShutdownFinishNoRestart ==
    /\ should_restart' = FALSE
    /\ loop' = "stopped"
    /\ shutdown_task' = [shutdown_task EXCEPT !.pc = "done"]

\* shutdown from `nonlocal __should_restart` to loop.stop()
ShutdownFinish ==
    /\ should_restart' = (shutdown_task.sig = "SIGUSR1")
    /\ loop' = "stopped"
    /\ shutdown_task' = [shutdown_task EXCEPT !.pc = "done"]

\* Fault: shutdown without the `if self._shutdown_reqs != 1: return` guard.
ShutdownStartUnguarded ==
    /\ Turning
    /\ shutdowns # <<>> /\ startable > 0
    /\ shutdowns' = Tail(shutdowns)
    /\ startable' = startable - 1
    /\ shutdown_reqs' = shutdown_reqs + 1
    /\ shutdown_task' = [sig |-> Head(shutdowns), pc |-> "gather"]
    /\ runner_task' =
           [runner_task EXCEPT !.must_cancel = (runner_task.pc # "cancelled")]
    /\ tasks' = [j \in DOMAIN tasks |->
                    IF tasks[j] = "running" THEN "cancelling" ELSE tasks[j]]
    /\ events' = events \o <<"cancel_listener">>
                 \o (IF DOMAIN tasks # {} THEN <<"cancel_tasks">> ELSE <<>>)
    /\ UNCHANGED <<config, task_coros, loop, should_restart, execv, conns>>

\* shutdown's first step: a duplicate request returns at once, the first one
\* runs up to `await asyncio.gather(*cancelled, ...)`.
ShutdownStart ==
    /\ Turning
    /\ shutdowns # <<>> /\ startable > 0
    /\ shutdowns' = Tail(shutdowns)
    /\ startable' = startable - 1
    /\ shutdown_reqs' = shutdown_reqs + 1
    /\ IF shutdown_reqs' # 1
       THEN UNCHANGED <<shutdown_task, runner_task, tasks, events>>
       ELSE /\ shutdown_task' = [sig |-> Head(shutdowns), pc |-> "gather"]
            /\ runner_task' =
                   [runner_task EXCEPT !.must_cancel = (runner_task.pc # "cancelled")]
            /\ tasks' = [j \in DOMAIN tasks |->
                            IF tasks[j] = "running" THEN "cancelling" ELSE tasks[j]]
            /\ events' = events \o <<"cancel_listener">>
                         \o (IF DOMAIN tasks # {} THEN <<"cancel_tasks">> ELSE <<>>)
    /\ UNCHANGED <<config, task_coros, loop, should_restart, execv, conns>>

\* shutdown resumed when gather has collected the runner and the cancelled
\* tasks.  The loop over to_await only builds wait_for(...) coroutine objects
\* that are never awaited: no task is waited for and none is cancelled.
ShutdownGathered ==
    /\ loop = "running"
    /\ shutdown_task.pc = "gather"
    /\ runner_task.pc = "cancelled"
    /\ \A j \in DOMAIN tasks : tasks[j] \in {"cancelled", "finished"}
    /\ IF after_serving
       THEN /\ shutdown_task' = [shutdown_task EXCEPT !.pc = "after_serving"]
            /\ events' = Append(events, "after_serving")
            /\ UNCHANGED <<should_restart, loop>>
       ELSE /\ ShutdownFinish
            /\ events' = Append(events, "stop")
    /\ UNCHANGED <<config, task_coros, tasks, runner_task, shutdown_reqs,
                   shutdowns, startable, execv, conns>>

\* after_serving() has returned
ShutdownAfterHook ==
    /\ loop = "running"
    /\ shutdown_task.pc = "after_serving"
    /\ ShutdownFinish
    /\ events' = Append(events, "stop")
    /\ UNCHANGED <<config, task_coros, tasks, runner_task, shutdown_reqs,
                   shutdowns, startable, execv, conns>>

\* run_forever returns once the callbacks of the iteration in which
\* loop.stop() was called have run; finally: loop.close(); os.execv when
\* __should_restart
Finally ==
    /\ loop = "stopped"
    /\ loop' = "closed"
    /\ execv' = should_restart
    /\ events' = Append(events, "closed")
    /\ UNCHANGED <<config, task_coros, tasks, runner_task, shutdown_reqs,
                   shutdowns, startable, shutdown_task, should_restart, conns>>

(***************************************************************************)
(* The handler tasks and their peers                                       *)
(***************************************************************************)
\* The sizes one socket read can deliver: any number of bytes from one up
\* to what the peer has sent and the read asks for.  limit is the count
\* asked for, as decimal digits.
Available(t, limit) ==
    IF BigLess(DigitsOf(Len(t.rest)), limit) THEN Len(t.rest)
    ELSE DecimalValue(limit)
RecvSizes(t, limit) == 1..Available(t, limit)

StepConn(c, t) ==
    /\ conns' = [conns EXCEPT ![c] = t]
    /\ UNCHANGED <<config, lifevars>>

\* sock_sendall fails only when the peer is gone.
SendOutcomes(t) ==
    IF t.peer = "gone" THEN {"ok", "BrokenPipeError", "ConnectionResetError"}
    ELSE {"ok"}

RecvHeaders(c) ==
    /\ Turning
    /\ conns[c].pc = "recv_headers"
    /\ \E n \in RecvSizes(conns[c], DigitsOf(RecvChunk)) :
       \E t \in RecvHeadersStep(conns[c], n, domains, gzip) :
          StepConn(c, t)

RecvBody(c) ==
    /\ Turning
    /\ conns[c].pc = "recv_body"
    /\ \E n \in RecvSizes(conns[c], conns[c].to_read) :
       \E t \in RecvBodyStep(conns[c], n, domains, gzip) :
          StepConn(c, t)

\* A read when the peer is gone and everything it sent has been received.
\* After a reset the read raises ConnectionResetError.  After a close
\* sock_recv / sock_recv_into return zero bytes at once, without
\* suspending the task: the read loop (`while b'\r\n\r\n' not in temp_buf`,
\* `while to_read`) goes round with nothing changed and never gives control
\* back to the event loop, which runs no other callback from then on.
RecvEOF(c) ==
    /\ Turning
    /\ conns[c].pc \in {"recv_headers", "recv_body"}
    /\ conns[c].peer = "gone" /\ conns[c].rest = <<>>
    /\ \/ StepConn(c, ReadFail(conns[c], "ConnectionResetError"))
       \/ /\ loop' = "blocked"
          /\ UNCHANGED <<config, task_coros, tasks, runner_task, shutdown_reqs,
                         shutdowns, startable, shutdown_task, should_restart, execv, conns,
                         events>>

\* Fault: a handler's exception that is not held by its task but leaves
\* run_forever, which ends the loop and with it the accept loop.
HandlerReturnsUncaught(c, rets, times) ==
    /\ loop = "running"
    /\ conns[c].pc = "handler"
    /\ \E ret \in rets, now \in times :
          /\ conns' = [conns EXCEPT ![c] = AfterHandler(conns[c], ret, gzip, now)]
          /\ loop' = IF ret.kind = "raise" THEN "stopped" ELSE loop
    /\ UNCHANGED <<config, task_coros, tasks, runner_task, shutdown_reqs,
                   shutdowns, startable, shutdown_task, should_restart, execv, events>>

\* The handler stores a header on its connection: conn.headers[k] = v
SetHeader(c, k, v) ==
    /\ Turning
    /\ conns[c].pc = "handler"
    /\ StepConn(c, [conns[c] EXCEPT !.conn.headers = CID_setitem(@, k, v)])

\* The handler finishes with one of rets at one of times, and dispatch goes
\* on to sock_sendall without a suspension.
HandlerReturns(c, rets, times) ==
    /\ Turning
    /\ conns[c].pc = "handler"
    /\ \E ret \in rets, now \in times :
          StepConn(c, AfterHandler(conns[c], ret, gzip, now))

SendAll(c) ==
    /\ Turning
    /\ conns[c].pc = "sendall"
    /\ \E outcome \in SendOutcomes(conns[c]) :
       \E shut_ok \in ShutOutcomes(conns[c]) :
          StepConn(c, AfterSend(conns[c], outcome, shut_ok))

\* The peer closes or resets its end once it has sent its request; what it
\* sent stays readable.
PeerGone(c) ==
    /\ Turning
    /\ conns[c].peer = "up"
    /\ ~TaskEnded(conns[c])
    /\ StepConn(c, [conns[c] EXCEPT !.peer = "gone"])

(***************************************************************************)
(* Domain and route management                                             *)
(***************************************************************************)
\* The domains and routes the application makes for the routing
\* specifications: Domain('a') twice, Domain({'a', 'c'}) and
\* Domain(re.compile('a')), which all match the hostname 'a'.
Domain_a2 == [id |-> 3, kind |-> "str", hostname |-> {H_a},
              routes |-> SetOf(<<Route_q>>)]
Domain_re == [id |-> 4, kind |-> "re", hostname |-> {H_a}, routes |-> NewSet]
DomainPool == {Domain_a, Domain_ac, Domain_a2, Domain_re}
DomainSets == {{}, {Domain_a, Domain_ac}, {Domain_a, Domain_ac, Domain_a2}}
Hostnames  == {H_a, H_c, <<"a","b">>, <<"b">>}

\* The two Domain('a') of a program that is run twice
RerunPool == {Domain_a, Domain_a2}

\* @domain.route('/', methods=['POST']) and @domain.route(re.compile('/q'));
\* a second Route object for the paths, methods and handler of Route_q
Route_index_post == [id |-> 4, kind |-> "str", path |-> {P_root},
                     methods |-> <<S_POST>>, handler |-> "index_post"]
Route_re         == [id |-> 5, kind |-> "re", path |-> {P_q},
                     methods |-> <<S_GET>>, handler |-> "re"]
Route_q_again    == [Route_q EXCEPT !.id = 6]
RouteObjects == {Route_index, Route_q, Route_upload, Route_index_post,
                 Route_re, Route_q_again}
\* The arguments of the route() calls, as the Route each of them makes, and
\* the routes of the RouteMaps that are merged in
RoutePool == {Route_index, Route_index_post}
RouteMaps == {{Route_q, Route_re}, {Route_index, Route_q_again}}
Paths     == {P_root, P_q, P_r, <<"/","q","x">>, <<"/","z">>}
Methods   == {S_GET, S_HEAD, S_POST, S_PUT}
\* Domain('a') and Domain(re.compile('a')) before any route is registered
Domain_new    == [id |-> 5, kind |-> "str", hostname |-> {H_a}, routes |-> NewSet]
Domain_new_re == [id |-> 6, kind |-> "re", hostname |-> {H_a}, routes |-> NewSet]

\* Bounds of the routing specifications
MaxFill   == 4    \* keys and dummies in Server.domains
MaxRoutes == 5    \* routes registered, over all domains

\* The tables one call on the set of domains so can leave
Called(so, call) ==
    CASE call.op = "add"    -> set_add(so, call.arg)
      [] call.op = "ior"    -> set_ior(so, call.arg, call.same)
      [] call.op = "remove" -> {set_remove(so, call.arg)}
      [] call.op = "isub"   -> set_isub(so, call.arg, call.same)

\* One call on Server.domains: made in this run and, when a second run is
\* followed, in that run as well.  A table grows to MaxFill slots at most.
Bounded(so, tables) ==
    {table \in tables : Fill(table) <= MaxFill \/ Fill(table) <= Fill(so)}
OnDomains(call) ==
    /\ domains' \in Bounded(domains, Called(domains, call))
    /\ rerun' \in IF rerun = None THEN {None}
                  ELSE {Some(so) : so \in Bounded(rerun[1], Called(rerun[1], call))}
    /\ UNCHANGED <<gzip, before_serving, after_serving, sigusr1_restart,
                   lifevars, conns, cached, limited>>

\* Server.add_domain(domain): self.domains.add(domain)
AddDomain(d) == OnDomains([op |-> "add", arg |-> d, same |-> FALSE])

\* Server.add_domains(domains): self.domains |= domains.  same says that
\* the argument is self.domains itself, which ds then holds the keys of.
AddDomains(ds, same) ==
    /\ same => ds = Members(domains)
    /\ OnDomains([op |-> "ior", arg |-> ds, same |-> same])

\* Server.remove_domain(domain): self.domains.remove(domain) raises KeyError,
\* and changes nothing, when the domain is not registered.
RemoveDomain(d) ==
    IF Present(domains, d)
    THEN OnDomains([op |-> "remove", arg |-> d, same |-> FALSE])
    ELSE UNCHANGED vars

\* Server.remove_domains(domains): self.domains -= domains.  same says that
\* the argument is self.domains itself.
RemoveDomains(ds, same) ==
    /\ same => ds = Members(domains)
    /\ OnDomains([op |-> "isub", arg |-> ds, same |-> same])

\* The routes registered in the domains of doms, each with its domain
Registered(doms) ==
    UNION {{<<d.id, r.id>> : r \in Members(d.routes)} : d \in Members(doms)}

\* id(Route(...)): an object apart from every Route there is
NewId ==
    CHOOSE n \in 1..(Cardinality(Ids(RouteObjects)) + Cardinality(Registered(domains)) + 1) :
        /\ n \notin Ids(RouteObjects)
        /\ \A reg \in Registered(domains) : reg[2] # n
        /\ \A m \in 1..(n - 1) :
               m \in Ids(RouteObjects) \/ \E reg \in Registered(domains) : reg[2] = m

\* One call on the routes of the registered Domain d, which registers added
\* more routes and can leave any of tables: d is the same object with those
\* routes.
OnRoutes(d, added, tables) ==
    /\ added = 0 \/ Cardinality(Registered(domains)) + added <= MaxRoutes
    /\ \E routes \in tables :
           domains' = [domains EXCEPT !.slots = [i \in DOMAIN domains.slots |->
               IF domains.slots[i].live /\ domains.slots[i].key.id = d.id
               THEN Entry([d EXCEPT !.routes = routes])
               ELSE domains.slots[i]]]
    /\ UNCHANGED <<gzip, before_serving, after_serving, sigusr1_restart, rerun,
                   lifevars, conns, cached, limited>>

\* Fault: an add_map that replaces the domain's routes by those of the map.
AddMapReplacing(d, rmap, same) ==
    /\ same => rmap = Members(d.routes)
    /\ OnRoutes(d, Cardinality(Ids(rmap) \ Ids(Members(d.routes))),
                IF same THEN {d.routes} ELSE set_ior(NewSet, rmap, FALSE))

\* Domain.add_map(rmap): self.routes |= rmap.routes.  same says that rmap is
\* the domain itself (a Domain is a RouteMap), rmap.routes being self.routes.
AddMap(d, rmap, same) ==
    /\ same => rmap = Members(d.routes)
    /\ OnRoutes(d, Cardinality(Ids(rmap) \ Ids(Members(d.routes))),
                set_ior(d.routes, rmap, same))

\* @domain.route(path, methods) applied to a handler:
\* self.routes.add(Route(path, methods, handler)).  Every call makes a new
\* Route object, which is added whatever the set holds.
AddRoute(d, route) ==
    OnRoutes(d, 1, set_add(d.routes, [route EXCEPT !.id = NewId]))

(***************************************************************************)
(* utils.async_cache                                                       *)
(***************************************************************************)
\* hash(n) of an int below 2^61 - 1: the number itself, except that -1,
\* which is the error value of the hash slot, is replaced by -2.
Hash(n) == IF n = -1 THEN -2 ELSE n

\* _make_key(args, kwargs) for positional arguments: hash(args).  The hash
\* of a tuple is a function of the hashes of its items, and is written
\* here as the tuple of them.
make_key(args) == [i \in DOMAIN args |-> Hash(args[i])]

\* async_cache(f): cache = {}; hits = misses = 0.  calls are the calls of
\* wrapper made so far, clears the number of cache_clear calls, awaited how
\* often f has been awaited for each key since the last cache_clear.
NewCache ==
    [cache |-> EmptyDict, hits |-> 0, misses |-> 0, calls |-> <<>>,
     clears |-> 0, awaited |-> [k \in {} |-> 0]]

Wrap ==
    /\ cached = None
    /\ cached' = Some(NewCache)
    /\ UNCHANGED <<server, limited, lifevars, conns>>

\* wrapper(*args) up to its return on a hit, or up to `await f(*args)`
CacheHit(c, args, key) ==
    [c EXCEPT !.hits = @ + 1,
              !.calls = Append(@, [pc |-> "done", key |-> key, clears |-> c.clears,
                                   val |-> Some(c.cache[key])])]
CacheMiss(c, args, key) ==
    [c EXCEPT !.misses = @ + 1,
              !.awaited = [k \in (DOMAIN @) \cup {key} |->
                              IF k \in DOMAIN @ THEN @[k] + (IF k = key THEN 1 ELSE 0)
                              ELSE 1],
              !.calls = Append(@, [pc |-> "awaiting", key |-> key,
                                   clears |-> c.clears, val |-> None])]
CacheLookup(c, args, key) ==
    IF key \in DOMAIN c.cache THEN CacheHit(c, args, key)
    ELSE CacheMiss(c, args, key)
CacheCall(args, max) ==
    /\ cached # None
    /\ Len(cached[1].calls) < max
    /\ cached' = Some(CacheLookup(cached[1], args, make_key(args)))
    /\ UNCHANGED <<server, limited, lifevars, conns>>

\* wrapper resumed when f has returned val: cache[key] = val; return val
CacheReturn(i, val) ==
    /\ cached # None
    /\ i \in DOMAIN cached[1].calls
    /\ cached[1].calls[i].pc = "awaiting"
    /\ cached' = Some([cached[1] EXCEPT
                          !.cache = DictSet(@, cached[1].calls[i].key, val),
                          !.calls[i].pc = "done",
                          !.calls[i].val = Some(val)])
    /\ UNCHANGED <<server, limited, lifevars, conns>>

\* wrapper.cache_clear(): hits = misses = 0; cache.clear()
CacheClear(max) ==
    /\ cached # None
    /\ cached[1].clears < max
    /\ cached' = Some([cached[1] EXCEPT !.hits = 0, !.misses = 0,
                                        !.cache = EmptyDict,
                                        !.clears = @ + 1,
                                        !.awaited = [k \in {} |-> 0]])
    /\ UNCHANGED <<server, limited, lifevars, conns>>

(***************************************************************************)
(* web.ratelimit                                                           *)
(***************************************************************************)
\* ratelimit(period, max_count, default_return)(f): last_reset = 0 and
\* num_calls = 0 in the closure all callers share.  now is the reading of
\* clock; calls are the calls of wrapper made so far.
NewLimit(period, max_count) ==
    [period |-> period, max_count |-> max_count, last_reset |-> 0,
     num_calls |-> 0, now |-> 0, calls |-> <<>>]

Decorate(period, max_count) ==
    /\ limited = None
    /\ limited' = Some(NewLimit(period, max_count))
    /\ UNCHANGED <<server, cached, lifevars, conns>>

\* time passes between two calls
Tick(max) ==
    /\ limited # None
    /\ limited[1].now < max
    /\ limited' = Some([limited[1] EXCEPT !.now = @ + 1])
    /\ UNCHANGED <<server, cached, lifevars, conns>>

\* period_remaining = period - (clock() - last_reset); period_remaining <= 0
PeriodOver(l) == l.period - (l.now - l.last_reset) <= 0

\* if num_calls > max_count: return default_return
RatelimitedLate(num_calls, max_count) == num_calls > max_count + 1
Ratelimited(num_calls, max_count) == num_calls > max_count

\* num_calls after `if period_remaining <= 0: num_calls = 0` and
\* `num_calls += 1`
Counted(l) == (IF PeriodOver(l) THEN 0 ELSE l.num_calls) + 1

\* wrapper(*args): one call, up to its return of default_return or its
\* call of f.  d is the time that passes between the two readings of
\* clock, of which the second one becomes last_reset.
CallRecord(l) ==
    [at |-> l.now, since |-> l.last_reset, reset |-> PeriodOver(l),
     ret |-> IF Ratelimited(Counted(l), l.max_count) THEN "default" ELSE "f"]
RateCall(d, max, maxtime) ==
    /\ limited # None
    /\ Len(limited[1].calls) < max
    /\ limited[1].now + d <= maxtime
    /\ limited' = Some([limited[1] EXCEPT
                           !.num_calls = Counted(limited[1]),
                           !.last_reset = IF PeriodOver(limited[1])
                                          THEN limited[1].now + d ELSE @,
                           !.now = IF PeriodOver(limited[1]) THEN @ + d ELSE @,
                           !.calls = Append(@, CallRecord(limited[1]))])
    /\ UNCHANGED <<server, cached, lifevars, conns>>

(***************************************************************************)
(* Specifications                                                          *)
(***************************************************************************)
\* What the handlers of the specifications return, and the gzip levels the
\* server is configured with.
LifeReturns == {RetRaw(S_ok), RetRaise}
DispatchReturns ==
    {RetNone, RetRaw(<<>>), RetRaw(S_ok), RetPair(201, S_made),
     RetPair(204, <<>>), RetPair(299, S_ok), RetRaise}
GzipLevels == {0, 6}

\* The lifecycle: startup, connections, signals and shutdown.
Init == InitServer({0}, BOOLEAN, BOOLEAN, DomainOrders, 1..MaxCoros)

Next ==
    \/ Run
    \/ RunnerStart
    \/ RunnerAfterHook
    \/ RunnerCancelled
    \/ Accept(LifeStreams, MaxConns)
    \/ \E i \in DOMAIN tasks : TaskFinish(i)
    \/ \E i \in DOMAIN tasks : TaskCancelled(i)
    \/ \E sig \in Signals : Signal(sig)
    \/ ShutdownStart
    \/ ShutdownGathered
    \/ ShutdownAfterHook
    \/ Finally
    \/ \E c \in DOMAIN conns : RecvHeaders(c)
    \/ \E c \in DOMAIN conns : HandlerReturns(c, LifeReturns, Clock)
    \/ \E c \in DOMAIN conns : SendAll(c)

Spec == Init /\ [][Next]_vars

\* Dispatch: a running server, every kind of request and handler result,
\* peers that may go away.
MaxDispatchConns == 1

InitDispatch == InitServer(GzipLevels, {FALSE}, {FALSE}, DomainOrders, {})

NextDispatch ==
    \/ Run
    \/ RunnerStart
    \/ Accept(IF conns = <<>> THEN DispatchStreams ELSE LifeStreams,
              MaxDispatchConns)
    \/ \E c \in DOMAIN conns : RecvHeaders(c)
    \/ \E c \in DOMAIN conns : RecvBody(c)
    \/ \E c \in DOMAIN conns : HandlerReturns(c, DispatchReturns, Clock)
    \/ \E c \in DOMAIN conns : SendAll(c)
    \/ \E c \in DOMAIN conns : PeerGone(c)

SpecDispatch == InitDispatch /\ [][NextDispatch]_vars

\* Parsing: a running server and every request line of ParseStreams.
MaxParseConns == 1

InitParse == InitServer({0}, {FALSE}, {FALSE}, DomainOrders, {})

NextParse ==
    \/ Run
    \/ RunnerStart
    \/ Accept(IF conns = <<>> THEN ParseStreams ELSE LifeStreams, MaxParseConns)
    \/ \E c \in DOMAIN conns : RecvHeaders(c)
    \/ \E c \in DOMAIN conns : HandlerReturns(c, LifeReturns, Clock)
    \/ \E c \in DOMAIN conns : SendAll(c)

SpecParse == InitParse /\ [][NextParse]_vars

\* Concurrency: a running server with several connections in flight, whose
\* handlers return or raise and whose peers may go away.
MaxConcurrent == 2

InitConcurrent == InitServer({0}, {FALSE}, {FALSE}, DomainOrders, {})

NextConcurrent ==
    \/ Run
    \/ RunnerStart
    \/ Accept(LifeStreams, MaxConcurrent)
    \/ \E c \in DOMAIN conns : RecvHeaders(c)
    \/ \E c \in DOMAIN conns : HandlerReturns(c, LifeReturns, Clock)
    \/ \E c \in DOMAIN conns : SendAll(c)
    \/ \E c \in DOMAIN conns : PeerGone(c)

SpecConcurrent == InitConcurrent /\ [][NextConcurrent]_vars

\* Uploads: a running server that receives multipart/form-data POSTs, cut
\* into socket reads at any place.
MaxUploadConns == 1

InitUpload == InitServer({0}, {FALSE}, {FALSE}, DomainOrders, {})

NextUpload ==
    \/ Run
    \/ RunnerStart
    \/ Accept(UploadStreams, MaxUploadConns)
    \/ \E c \in DOMAIN conns : RecvHeaders(c)
    \/ \E c \in DOMAIN conns : RecvBody(c)
    \/ \E c \in DOMAIN conns : HandlerReturns(c, LifeReturns, Clock)
    \/ \E c \in DOMAIN conns : SendAll(c)

SpecUpload == InitUpload /\ [][NextUpload]_vars

\* Headers: requests whose Host header comes in several casings, and
\* handlers that store headers under further casings.
MaxHeaderConns == 1
HeaderKeys ==
    {<<"h","o","s","t">>, S_Host, <<"H","O","S","T">>, S_ete, S_Ete,
     S_micro, S_Mu}
HeaderValues == {<<"1">>, <<"2">>}
HeaderStreams == {Req_index, Req_q, Req_no_host, Req_accent, Req_micro}

InitHeaders == InitServer({0}, {FALSE}, {FALSE}, DomainOrders, {})

NextHeaders ==
    \/ Run
    \/ RunnerStart
    \/ Accept(HeaderStreams, MaxHeaderConns)
    \/ \E c \in DOMAIN conns : RecvHeaders(c)
    \/ \E c \in DOMAIN conns : \E k \in HeaderKeys : \E v \in HeaderValues :
           SetHeader(c, k, v)
    \/ \E c \in DOMAIN conns : HandlerReturns(c, LifeReturns, Clock)
    \/ \E c \in DOMAIN conns : SendAll(c)

SpecHeaders == InitHeaders /\ [][NextHeaders]_vars

\* Background tasks: the application registers pending coroutines, runs
\* the server, hands it tasks of its own, and signals shut it down.
MaxPending == 2
MaxAdded   == 1
CoroIds    == 1..MaxPending
AddedIds   == (MaxPending + 1)..(MaxPending + MaxAdded)

InitTasks == InitServer({0}, BOOLEAN, {FALSE}, DomainOrders, {})

NextTasks ==
    \/ \E i \in CoroIds : AddPendingTask(i)
    \/ \E i \in CoroIds : RemovePendingTask(i)
    \/ Run
    \/ RunnerStart
    \/ RunnerAfterHook
    \/ RunnerCancelled
    \/ \E j \in AddedIds : AddTask(j)
    \/ \E j \in CoroIds \cup AddedIds : RemoveTask(j)
    \/ \E i \in DOMAIN tasks : TaskFinish(i)
    \/ \E i \in DOMAIN tasks : TaskCancelled(i)
    \/ \E sig \in Signals : Signal(sig)
    \/ ShutdownStart
    \/ ShutdownGathered
    \/ ShutdownAfterHook
    \/ Finally

SpecTasks == InitTasks /\ [][NextTasks]_vars

\* Peers that go away early: requests that stop short or are complete,
\* received in pieces, from peers that may close or reset at any time.
MaxEarlyConns == 2

InitEarly == InitServer({0}, {FALSE}, {FALSE}, DomainOrders, {})

NextEarly ==
    \/ Run
    \/ RunnerStart
    \/ Accept(IF conns = <<>> THEN CutStreams \cup LifeStreams ELSE LifeStreams,
              MaxEarlyConns)
    \/ \E c \in DOMAIN conns : RecvHeaders(c)
    \/ \E c \in DOMAIN conns : RecvBody(c)
    \/ \E c \in DOMAIN conns : RecvEOF(c)
    \/ \E c \in DOMAIN conns : HandlerReturns(c, LifeReturns, Clock)
    \/ \E c \in DOMAIN conns : SendAll(c)
    \/ \E c \in DOMAIN conns : PeerGone(c)

\* A read of connection c that brings data, and the condition under which
\* one is possible
RecvStep(c) ==
    c \in DOMAIN conns /\ (RecvHeaders(c) \/ RecvBody(c))
CanRecv(c) ==
    /\ c \in DOMAIN conns
    /\ Turning
    /\ conns[c].pc \in {"recv_headers", "recv_body"}
    /\ conns[c].rest # <<>>

\* Under the scheduling of the event loop a callback that is ready is run,
\* so a task that can take a step of its read takes one: weak fairness of
\* the read at the end of the data, and of the reads that bring data, the
\* latter written out with its enabling condition CanRecv.
SpecEarlyFair ==
    /\ InitEarly /\ [][NextEarly]_vars
    /\ \A c \in 1..MaxEarlyConns :
           /\ WF_vars(c \in DOMAIN conns /\ RecvEOF(c))
           /\ ([]<>~CanRecv(c)) \/ ([]<><<RecvStep(c)>>_vars)

\* The cache: concurrent calls of a function wrapped with async_cache,
\* whose results the application decides, and cache_clear calls.
MaxCalls  == 3
MaxClears == 1
CacheArgs   == {<<1>>, <<-1>>, <<-2>>}
CacheValues == {"a", "b"}

InitCache == InitServer({0}, {FALSE}, {FALSE}, {NewSet}, {})

NextCache ==
    \/ Wrap
    \/ \E args \in CacheArgs : CacheCall(args, MaxCalls)
    \/ \E i \in 1..MaxCalls : \E val \in CacheValues : CacheReturn(i, val)
    \/ CacheClear(MaxClears)

SpecCache == InitCache /\ [][NextCache]_vars

\* The rate limit: calls of a function wrapped with ratelimit, made while
\* time passes.
MaxRateCalls == 5
MaxTime      == 5
Periods   == 0..2
MaxCounts == 0..2

InitRatelimit == InitServer({0}, {FALSE}, {FALSE}, {NewSet}, {})

NextRatelimit ==
    \/ \E period \in Periods : \E max_count \in MaxCounts :
          Decorate(period, max_count)
    \/ Tick(MaxTime)
    \/ \E d \in 0..1 : RateCall(d, MaxRateCalls, MaxTime)

SpecRatelimit == InitRatelimit /\ [][NextRatelimit]_vars

\* Domain management: the application registers and removes domains.
InitDomains == InitServer({0}, {FALSE}, {FALSE}, {NewSet}, {})

NextDomains ==
    \/ \E d \in DomainPool : AddDomain(d)
    \/ \E ds \in DomainSets : AddDomains(ds, FALSE)
    \/ AddDomains(Members(domains), TRUE)
    \/ \E d \in DomainPool : RemoveDomain(d)
    \/ \E ds \in DomainSets : RemoveDomains(ds, FALSE)
    \/ RemoveDomains(Members(domains), TRUE)

SpecDomains == InitDomains /\ [][NextDomains]_vars

\* The same domain management in two runs of one program, which makes two
\* Domain('a').
InitRerun == InitRuns({0}, {FALSE}, {FALSE}, {NewSet}, {}, {Some(NewSet)})

NextRerun ==
    \/ \E d \in RerunPool : AddDomain(d)
    \/ AddDomains(RerunPool, FALSE)
    \/ \E d \in RerunPool : RemoveDomain(d)
    \/ RemoveDomains(RerunPool, FALSE)
    \/ RemoveDomains(Members(domains), TRUE)

SpecRerun == InitRerun /\ [][NextRerun]_vars

\* Route registration: routes are added to two registered domains, one at a
\* time and by merging route maps.
InitRoutes ==
    InitServer({0}, {FALSE}, {FALSE},
               {SetOf(order) : order \in Arrangements({Domain_new, Domain_new_re})},
               {})

NextRoutes ==
    \/ \E d \in Members(domains) : \E r \in RoutePool : AddRoute(d, r)
    \/ \E d \in Members(domains) : \E m \in RouteMaps : AddMap(d, m, FALSE)
    \/ \E d \in Members(domains) : AddMap(d, Members(d.routes), TRUE)

SpecRoutes == InitRoutes /\ [][NextRoutes]_vars

(***************************************************************************)
(* Properties                                                              *)
(***************************************************************************)
\* How often the lifecycle step e has been taken
Count(seq, e) == Cardinality({i \in DOMAIN seq : seq[i] = e})

\* The place of the first e in seq, 0 when there is none
FirstAt(seq, e) ==
    IF \E i \in DOMAIN seq : seq[i] = e
    THEN CHOOSE i \in DOMAIN seq : seq[i] = e /\ \A j \in 1..(i - 1) : seq[j] # e
    ELSE 0

\* The lifecycle states: Idle 0, Listening 1, ShuttingDown 2, Stopped 3.
Stopped == loop \in {"stopped", "closed"}
Phase ==
    IF Stopped THEN 3
    ELSE IF shutdown_reqs >= 1 THEN 2
    ELSE IF runner_task.pc = "accepting" THEN 1
    ELSE 0

\* Connection.read is over; it raised (every later exception comes after a
\* lookup of dispatch or is the OSError of the missing-Host branch); it
\* returned: the request has been read and handle goes on.
ReadEnded(t)  == t.pc \notin {"recv_headers", "recv_body"}
ReadRaised(t) == t.pc = "failed" /\ t.lookups = 0 /\ t.exc # "OSError"
PastRead(t)   == ReadEnded(t) /\ ~ReadRaised(t)

\* The status code and the body of a response as a client reads them
ResponseStatus(out) == SubSeq(out, Len(S_HTTP11) + 1, Len(S_HTTP11) + 3)
ResponseBody(out)   == SliceFrom(out, find(out, CRLFCRLF) + 4)

\* The fixed 404 response on the wire
NotFoundResponse ==
    <<"H","T","T","P","/","1",".","1"," ","4","0","4"," ",
      "N","O","T"," ","F","O","U","N","D","\r","\n",
      "C","o","n","t","e","n","t","-","L","e","n","g","t","h",":"," ","1","0",
      "\r","\n","\r","\n",
      "N","o","t"," ","F","o","u","n","d",".">>

\* No registered domain matches the request's host, or the first one that
\* does has no route for the request's path and method.
Unrouted(t) ==
    \A i \in DOMAIN Iteration(domains) :
        (/\ Domain_matches(Iteration(domains)[i],
                           CID_getitem(t.conn.headers, S_Host))
         /\ \A j \in 1..(i - 1) :
                ~Domain_matches(Iteration(domains)[j],
                                CID_getitem(t.conn.headers, S_Host)))
        => \A r \in Members(Iteration(domains)[i].routes) :
               ~Route_matches(r, t.conn.path, t.conn.cmd)

\* The request line of a stream, and whether it is `METHOD target
\* HTTP/VERSION` with a listed method and a listed version.
RequestLine(stream) == SliceTo(stream, find(stream, CRLF))
Listed(line) ==
    /\ Len(split(line, SP)) = 3
    /\ split(line, SP)[1] \in ReqMethods
    /\ \E v \in ReqVersions : split(line, SP)[3] = S_HTTP \o v

\* C1: duplicate shutdown signals are idempotent.  Whatever signals arrive
\* and however they interleave, each step of the shutdown sequence (cancel
\* the listener, cancel the background tasks, after_serving, stop the loop,
\* close it) is taken at most once, and a shutdown request after the first
\* changes nothing but the request counter.
C1_ShutdownRunsOnce ==
    /\ [](\A e \in {"cancel_listener", "cancel_tasks", "after_serving",
                    "stop", "closed"} : Count(events, e) <= 1)
    /\ [][(shutdown_reqs >= 1 /\ shutdown_reqs' # shutdown_reqs)
            => UNCHANGED <<config, task_coros, tasks, loop, runner_task,
                           shutdown_task, should_restart, execv, conns,
                           events>>]_vars

\* Two shutdown requests were handled and the server stopped, once.
C1_Witness ==
    /\ shutdown_reqs >= 2
    /\ loop = "closed"
    /\ Count(events, "stop") = 1

\* C2, as amended: once shutdown() has started on the first signal (the
\* request is counted and the listener task cancelled) no connection is
\* accepted and no handler task created; the lifecycle never moves back, and
\* the accept loop is entered from Idle only.
C2_NoAcceptOnceShuttingDown ==
    [][/\ shutdown_reqs >= 1 => Len(conns') = Len(conns)
       /\ Phase' >= Phase
       /\ (runner_task'.pc = "accepting" /\ runner_task.pc # "accepting")
              => Phase = 0]_vars

\* Shutdown has started while the listener was accepting and could take
\* another connection.
C2_Witness ==
    /\ shutdown_reqs >= 1
    /\ runner_task.pc = "accepting"
    /\ Len(conns) < MaxConns

\* C2, as written: from the moment a shutdown signal has been delivered no
\* connection is accepted and no handler task created.
C2_NoAcceptOnceSignalled ==
    [][(shutdown_reqs + Len(shutdowns) >= 1) => Len(conns') = Len(conns)]_vars

\* C3: the shutdown sequence stops the listener, then cancels the background
\* tasks, then waits for (or cancels) every handler task in flight, then
\* calls after_serving, then stops: when after_serving is called or the loop
\* stopped, the earlier steps are done and no handler task is in flight.
C3_ShutdownOrder ==
    /\ Count(events, "cancel_tasks") >= 1
           => 0 < FirstAt(events, "cancel_listener")
              /\ FirstAt(events, "cancel_listener") < FirstAt(events, "cancel_tasks")
    /\ Count(events, "after_serving") + Count(events, "stop") >= 1
           => /\ Count(events, "cancel_listener") = 1
              /\ \A i \in DOMAIN tasks : tasks[i] \in {"cancelled", "finished"}
              /\ \A c \in DOMAIN conns : TaskEnded(conns[c])
    /\ (Count(events, "after_serving") >= 1 /\ Count(events, "stop") >= 1)
           => FirstAt(events, "after_serving") < FirstAt(events, "stop")

\* C4: when the server is Stopped no handler task is in flight.
C4_NoHandlerInFlightWhenStopped ==
    Stopped => \A c \in DOMAIN conns : TaskEnded(conns[c])

\* C5: when the task of an accepted socket has ended, on whatever path, the
\* socket has been shut down and closed.
C5_SocketClosedWhenTaskEnds ==
    \A c \in DOMAIN conns : TaskEnded(conns[c]) => conns[c].sock = "closed"

\* C6: a dispatched request with a Host header that no domain matches, or
\* whose domain has no route for its path and method, invokes no handler
\* and is answered with the fixed 404 response, written once.
C6_UnroutedIs404 ==
    \A c \in DOMAIN conns :
        (/\ PastRead(conns[c])
         /\ CID_contains(conns[c].conn.headers, S_Host)
         /\ Unrouted(conns[c]))
        => /\ conns[c].handler_calls = 0
           /\ conns[c].route = None
           /\ conns[c].out = NotFoundResponse
           /\ conns[c].code = Some(404)
           /\ conns[c].pc \in {"sendall", "done", "failed"}
           /\ conns[c].pc = "sendall" => conns[c].sent = <<>>
           /\ conns[c].pc # "sendall"
                  => /\ Len(conns[c].sent) = 1
                     /\ conns[c].sent[1].data = NotFoundResponse

\* A request for a host no domain matches has been answered.
C6_Witness ==
    \E c \in DOMAIN conns :
        /\ conns[c].stream = Req_other
        /\ conns[c].pc = "done"
        /\ conns[c].sent = <<[data |-> NotFoundResponse, ok |-> TRUE]>>

\* C7: when the handler of the matched route returns None, the response has
\* status 404.
C7_NoneIs404 ==
    \A c \in DOMAIN conns :
        (conns[c].ret = Some(RetNone) /\ conns[c].out # <<>>)
        => /\ conns[c].code = Some(404)
           /\ ResponseStatus(conns[c].out) = <<"4","0","4">>

\* C8: a raw body is answered with status 200 and that body, a (status,
\* body) pair with that status and that body, and the code dispatch returns
\* is the status on the wire.
C8_ResponseIsHandlerResult ==
    \A c \in DOMAIN conns :
        (/\ conns[c].ret # None
         /\ conns[c].ret[1].kind \in {"raw", "pair"}
         /\ conns[c].out # <<>>)
        => /\ ResponseStatus(conns[c].out) =
                  (IF conns[c].ret[1].kind = "pair"
                   THEN str(conns[c].ret[1].status) ELSE <<"2","0","0">>)
           /\ ResponseBody(conns[c].out) = conns[c].ret[1].body
           /\ conns[c].code = Some(Small(int(ResponseStatus(conns[c].out))))

\* C9: a request without a Host header is not dispatched: no lookup, no
\* handler, no byte written, and the socket is closed.
C9_NoHostIsClosedUndispatched ==
    \A c \in DOMAIN conns :
        (PastRead(conns[c]) /\ ~CID_contains(conns[c].conn.headers, S_Host))
        => /\ conns[c].lookups = 0
           /\ conns[c].handler_calls = 0
           /\ conns[c].out = <<>>
           /\ conns[c].sent = <<>>
           /\ conns[c].sock = "closed"

\* C10: a request line whose method or version is not a listed one is
\* rejected: the parser sets no request field, no handler is invoked, no
\* response is written and the listener goes on accepting.
C10_UnlistedRequestLineRejected ==
    \A c \in DOMAIN conns :
        (PastRead(conns[c]) /\ ~Listed(RequestLine(conns[c].stream)))
        => /\ conns[c].conn = NewConnection
           /\ conns[c].handler_calls = 0
           /\ conns[c].out = <<>>
           /\ conns[c].sent = <<>>
           /\ runner_task.pc = "accepting"

\* C11: a multipart/form-data POST in which some part has no
\* Content-Disposition header is rejected: once the request has been read,
\* no handler has been invoked for the connection and its socket is closed.
C11_MissingDispositionRejected ==
    \A c \in DOMAIN conns :
        (conns[c].stream = Req_no_disp /\ ReadEnded(conns[c]))
        => /\ conns[c].handler_calls = 0
           /\ conns[c].sock = "closed"

\* The accept loop and the other tasks can go on: the listener takes the
\* next connection when there is one, and task d takes its next step (a
\* read when bytes have arrived, the handler's return, the end of the write).
CanAccept == ENABLED Accept(LifeStreams, MaxConcurrent + 1)
CanStep(d) ==
    /\ conns[d].pc = "recv_headers" /\ conns[d].rest # <<>>
           => loop = "running" /\ RecvSizes(conns[d], DigitsOf(RecvChunk)) # {}
    /\ conns[d].pc = "handler" => ENABLED HandlerReturns(d, LifeReturns, Clock)
    /\ conns[d].pc = "sendall" => ENABLED SendAll(d)

\* C12: an exception raised by a route handler is confined to the task of
\* its connection.  The step in which the task ends with the exception
\* changes neither the listener nor the loop nor any other task, and from
\* then on the listener still accepts and every other connection, accepted
\* before or afterwards, still takes its steps: it is read and dispatched.
C12_HandlerExceptionConfined ==
    /\ [][\A c \in DOMAIN conns :
            (conns'[c].exc = "Exception" /\ conns[c].exc # "Exception")
            => /\ conns'[c].pc = "failed"
               /\ UNCHANGED <<config, lifevars>>
               /\ \A d \in DOMAIN conns : d # c => conns'[d] = conns[d]]_vars
    /\ []((\E c \in DOMAIN conns : conns[c].exc = "Exception")
            => /\ loop = "running"
               /\ runner_task = [pc |-> "accepting", must_cancel |-> FALSE]
               /\ CanAccept
               /\ \A d \in DOMAIN conns : CanStep(d))

\* The handler of the first connection has raised, and the second
\* connection has been read, dispatched, answered and closed.
C12_Witness ==
    /\ Len(conns) = 2
    /\ conns[1].pc = "failed" /\ conns[1].exc = "Exception"
    /\ conns[2].pc = "done" /\ conns[2].handler_calls = 1
    /\ conns[2].sent = <<[data |-> conns[2].out, ok |-> TRUE]>>
    /\ conns[2].sock = "closed"

\* What the peer sends after the header delimiter
AfterDelimiter(stream) == SliceFrom(stream, find(stream, CRLFCRLF) + 4)

\* C13: for a request with Content-Length: N that is followed by at least N
\* bytes, once read() is over the captured body is exactly the first N bytes
\* after the header delimiter, however the stream was cut into socket reads
\* (so any two ways of cutting one stream give the same body).
C13_BodyIsContentLengthBytes ==
    \A c \in DOMAIN conns :
        (/\ ReadEnded(conns[c])
         /\ CID_contains(conns[c].conn.headers, S_Content_Length)
         /\ IsDecimal(CID_getitem(conns[c].conn.headers, S_Content_Length))
         /\ Fits(int(CID_getitem(conns[c].conn.headers, S_Content_Length)))
         /\ Small(int(CID_getitem(conns[c].conn.headers, S_Content_Length))) >= 0
         /\ Len(AfterDelimiter(conns[c].stream))
                >= Small(int(CID_getitem(conns[c].conn.headers, S_Content_Length))))
        => conns[c].conn.body =
               Some(SliceTo(AfterDelimiter(conns[c].stream),
                            Small(int(CID_getitem(conns[c].conn.headers,
                                                  S_Content_Length)))))

\* A response as a client reads it: the lines before the first blank line
ResponseLines(out) == split(SliceTo(out, find(out, CRLFCRLF)), CRLF)
\* 'HTTP/1.1 <code> <REASON>'
StatusLine(code) ==
    <<"H","T","T","P","/","1",".","1"," ">> \o str(code) \o <<" ">>
    \o upper((CHOOSE e \in httpstatus_str : e.code = code).reason)
\* The bodies dispatch can hand to send: the compressed one of any time
BodiesPassed(t) ==
    IF t.route = None THEN {S_NotFound}
    ELSE IF gzip > 0
    THEN {gzip_compress(OrEmpty(t.ret[1]).body, gzip, now) : now \in Clock}
    ELSE {OrEmpty(t.ret[1]).body}
OkResponse ==
    <<"H","T","T","P","/","1",".","1"," ","2","0","0"," ","O","K","\r","\n",
      "C","o","n","t","e","n","t","-","L","e","n","g","t","h",":"," ","2",
      "\r","\n","\r","\n","o","k">>

\* C14: send(status, body), for a status HTTPStatus knows, writes to the
\* socket exactly once.  The bytes are the status line 'HTTP/1.1 <code>
\* <REASON>', then the response headers joined by CRLF, a blank line and the
\* body it was given; a Content-Length header is there exactly when the body
\* is not empty, as the second line, with the length of the body sent.
\* Status 200 with body b"ok" and no other header gives OkResponse.
C14_SendWritesOnce ==
    \A c \in DOMAIN conns :
        conns[c].out # <<>>
        => /\ ResponseLines(conns[c].out)[1] = StatusLine(conns[c].code[1])
           /\ ResponseLines(conns[c].out) = conns[c].conn.resp_headers
           /\ \E body \in BodiesPassed(conns[c]) :
                 /\ conns[c].out = join(conns[c].conn.resp_headers, CRLF)
                                      \o CRLFCRLF \o body
                 /\ ResponseBody(conns[c].out) = body
                 /\ body # <<>>
                        <=> \E i \in DOMAIN conns[c].conn.resp_headers :
                               StartsWithAt(conns[c].conn.resp_headers[i],
                                            S_ContentLengthH, 1)
                 /\ body # <<>>
                        => conns[c].conn.resp_headers[2] =
                               S_ContentLengthH \o str(Len(ResponseBody(conns[c].out)))
           /\ (gzip = 0 /\ conns[c].ret = Some(RetRaw(S_ok)))
                  => conns[c].out = OkResponse
           /\ conns[c].pc = "sendall" => conns[c].sent = <<>>
           /\ conns[c].pc # "sendall"
                  => /\ Len(conns[c].sent) = 1
                     /\ conns[c].sent[1].data = conns[c].out

\* A handler's b"ok" has been sent uncompressed, in one write.
C14_Witness ==
    \E c \in DOMAIN conns :
        /\ gzip = 0
        /\ conns[c].ret = Some(RetRaw(S_ok))
        /\ conns[c].pc = "done"
        /\ conns[c].sent = <<[data |-> OkResponse, ok |-> TRUE]>>

\* The request's Accept-Encoding header advertises gzip
S_Accept_Encoding == <<"A","c","c","e","p","t","-","E","n","c","o","d","i","n","g">>
AcceptsGzip(t) ==
    /\ CID_contains(t.conn.headers, S_Accept_Encoding)
    /\ Contains(CID_getitem(t.conn.headers, S_Accept_Encoding),
                <<"g","z","i","p">>)
\* The response carries a Content-Type of an image format
Incompressible(t) ==
    \E i \in DOMAIN t.conn.resp_headers :
        StartsWithAt(t.conn.resp_headers[i],
                     S_Content_Type \o <<":"," ","i","m","a","g","e","/">>, 1)
\* The response carries 'Content-Encoding: gzip' and a compressed body
Compressed(t) ==
    /\ \E i \in DOMAIN t.conn.resp_headers :
           t.conn.resp_headers[i] = S_ContentEncoding
    /\ \E now \in Clock :
           ResponseBody(t.out) = gzip_compress(OrEmpty(t.ret[1]).body, gzip, now)

\* C15: the response to a handler's result is gzip-compressed and carries
\* 'Content-Encoding: gzip' exactly when the configured level is greater
\* than zero, the request's Accept-Encoding advertises gzip, the body is
\* larger than 1500 bytes and the response's Content-Type is not an
\* incompressible format; a client that sent no Accept-Encoding header gets
\* the response uncompressed.
C15_GzipOnlyWhenNegotiated ==
    \A c \in DOMAIN conns :
        (conns[c].route # None /\ conns[c].out # <<>>)
        => (Compressed(conns[c])
               <=> /\ gzip > 0
                   /\ AcceptsGzip(conns[c])
                   /\ Len(OrEmpty(conns[c].ret[1]).body) > 1500
                   /\ ~Incompressible(conns[c]))

\* C16: after any sequence of add_domain, add_domains, remove_domain and
\* remove_domains calls, find_domain(hostname) returns a currently registered
\* Domain whose matcher (exact string, member of a set, or pattern) accepts
\* the hostname whenever there is one, and none otherwise.
C16_FindDomainIsRegisteredMatch ==
    \A h \in Hostnames :
        /\ find_domain(domains, h) # None
               => /\ find_domain(domains, h)[1] \in Members(domains)
                  /\ Domain_matches(find_domain(domains, h)[1], h)
        /\ find_domain(domains, h) = None
               <=> \A d \in Members(domains) : ~Domain_matches(d, h)
        /\ Domain_matches(Domain_a, h) <=> h = H_a
        /\ Domain_matches(Domain_ac, h) <=> h \in {H_a, H_c}
        /\ Domain_matches(Domain_re, h) <=> h \in {H_a, <<"a","b">>}

\* A domain was removed and its slot still holds the dummy; of the registered
\* domains, the first in the iteration order does not match 'c' and a later
\* one does: the later one is found.
C16_Witness ==
    /\ Used(domains) >= 2
    /\ Fill(domains) > Used(domains)
    /\ ~Domain_matches(Iteration(domains)[1], H_c)
    /\ find_domain(domains, H_c) = Some(Domain_ac)
    /\ find_domain(domains, <<"b">>) = None

\* C17: within a Domain, find_route(path, method) returns a Route only if
\* the Route is registered, its methods contain the method and its matcher
\* accepts the path; it returns one whenever such a Route is registered, and
\* none otherwise.  A Route registered directly or merged in by add_map
\* stays registered.
C17_FindRouteIsRegisteredMatch ==
    /\ [](\A d \in Members(domains) : \A p \in Paths : \A m \in Methods :
            /\ find_route(d, p, m) # None
                   => /\ find_route(d, p, m)[1] \in Members(d.routes)
                      /\ \E k \in DOMAIN find_route(d, p, m)[1].methods :
                             find_route(d, p, m)[1].methods[k] = m
                      /\ Cond(find_route(d, p, m)[1].kind,
                              find_route(d, p, m)[1].path, p)
            /\ find_route(d, p, m) = None
                   <=> \A r \in Members(d.routes) : ~Route_matches(r, p, m))
    /\ [][\A d \in Members(domains) : \E e \in Members(domains') :
             /\ e.id = d.id
             /\ Members(d.routes) \subseteq Members(e.routes)]_vars

\* A domain's set of routes has been rebuilt, and it holds two Route objects
\* made by route('/') and, after them in the iteration order, one made by
\* route('/', methods=['POST']): a POST finds that one, a PUT finds none.
C17_Witness ==
    \E d \in Members(domains) :
        /\ d.routes.mask > 7
        /\ \E i, j, k \in DOMAIN Iteration(d.routes) :
               /\ i < j /\ j < k
               /\ Iteration(d.routes)[i].handler = "index"
               /\ Iteration(d.routes)[j].handler = "index"
               /\ find_route(d, P_root, S_POST) = Some(Iteration(d.routes)[k])
        /\ find_route(d, P_root, S_PUT) = None

\* Server.domains of the other run
Rerun == rerun[1]

\* C18: when several Domains that match one hostname are registered,
\* find_domain returns one fixed Domain for it: another run that registers
\* the same Domains in the same order returns the same Domain, and as long as
\* no domain is added or removed every call returns the same Domain.
C18_FindDomainIsDeterministic ==
    /\ [](\A h \in Hostnames : find_domain(domains, h) = find_domain(Rerun, h))
    /\ [][domains' = domains
             => \A h \in Hostnames :
                    find_domain(domains', h) = find_domain(domains, h)]_vars

\* A task that is suspended: in a socket read, in its handler, in a write
Suspended(t) == t.pc \in {"recv_headers", "recv_body", "handler", "sendall"}

\* C19: a slow handler does not block other connections.  While the task of
\* a connection is suspended in a read, in its handler or in a write, the
\* accept loop is still at sock_accept and takes the next connection, every
\* other task can take its next step, and a step of the listener or of
\* another task leaves the suspended task where it is (so a connection
\* accepted later can be answered and closed before the first completes).
C19_SlowHandlerDoesNotBlock ==
    /\ []((\E c \in DOMAIN conns : Suspended(conns[c]))
            => /\ loop = "running"
               /\ runner_task = [pc |-> "accepting", must_cancel |-> FALSE]
               /\ ENABLED Accept(LifeStreams, Len(conns) + 1)
               /\ \A d \in DOMAIN conns : CanStep(d))
    /\ [][\A c \in DOMAIN conns :
            (Suspended(conns[c]) /\ conns'[c] # conns[c])
            => /\ Len(conns') = Len(conns)
               /\ \A d \in DOMAIN conns : d # c => conns'[d] = conns[d]]_vars

\* The first connection is still in its handler, and the connection accepted
\* after it has been read, dispatched, answered and closed.
C19_Witness ==
    /\ Len(conns) = 2
    /\ conns[1].pc = "handler" /\ conns[1].sock = "open"
    /\ conns[1].sent = <<>>
    /\ conns[2].pc = "done" /\ conns[2].handler_calls = 1
    /\ conns[2].sent = <<[data |-> conns[2].out, ok |-> TRUE]>>
    /\ conns[2].sock = "closed"

\* C20: when the hooks are set, before_serving is invoked exactly once, at
\* the entry to Listening (before the listener exists, hence before any
\* connection is accepted), and after_serving is invoked exactly once,
\* during shutdown and before the loop is stopped; neither hook is invoked a
\* second time, however many shutdown signals arrive.
C20_HooksInvokedOnce ==
    /\ Count(events, "before_serving") <= 1
    /\ Count(events, "after_serving") <= 1
    /\ (before_serving /\ (runner_task.pc = "accepting" \/ conns # <<>>))
           => /\ Count(events, "before_serving") = 1
              /\ Count(events, "listening") = 1
              /\ FirstAt(events, "before_serving") < FirstAt(events, "listening")
    /\ Count(events, "after_serving") = 1
           => /\ shutdown_reqs >= 1
              /\ 0 < FirstAt(events, "cancel_listener")
              /\ FirstAt(events, "cancel_listener") < FirstAt(events, "after_serving")
    /\ (after_serving /\ Stopped)
           => /\ Count(events, "after_serving") = 1
              /\ Count(events, "stop") = 1
              /\ FirstAt(events, "after_serving") < FirstAt(events, "stop")

\* Both hooks are set, a connection has been accepted, two shutdown signals
\* have been handled, the loop is closed, and each hook has run once.
C20_Witness ==
    /\ before_serving /\ after_serving
    /\ conns # <<>>
    /\ shutdown_reqs = 2
    /\ loop = "closed"
    /\ Count(events, "before_serving") = 1
    /\ Count(events, "after_serving") = 1

\* C21: the process image is replaced, after the loop is closed, exactly
\* when SIGUSR1 handling is enabled and the signal of the first shutdown
\* request was SIGUSR1.  The signal that shutdown acts on is the one that was
\* delivered first, and no later signal changes it: a SIGUSR1 after another
\* signal causes no restart, another signal after a SIGUSR1 cancels none.
C21_RestartIffFirstSignalUSR1 ==
    /\ [](execv => loop = "closed")
    /\ [](loop = "closed"
            => (execv <=> (sigusr1_restart /\ shutdown_task.sig = "SIGUSR1")))
    /\ [][(shutdown_reqs = 0 /\ shutdown_reqs' = 1)
            => shutdown_task'.sig = Head(shutdowns)]_vars
    /\ [][shutdown_reqs >= 1 => shutdown_task'.sig = shutdown_task.sig]_vars
    /\ [][shutdowns # <<>> /\ Len(shutdowns') >= Len(shutdowns)
            => Head(shutdowns') = Head(shutdowns)]_vars

\* A SIGUSR1 started the shutdown, a second signal was handled as well, and
\* the process image has been replaced.
C21_Witness ==
    /\ sigusr1_restart
    /\ shutdown_task.sig = "SIGUSR1"
    /\ shutdown_reqs = 2
    /\ loop = "closed"
    /\ execv

\* What the parts of an upload, taken in the order of the body, leave in
\* files and in multipart_args: a part with a filename is kept under the
\* filename, any other part under its name.
RECURSIVE FilesOf(_, _)
FilesOf(files, parts) ==
    IF parts = <<>> THEN files
    ELSE FilesOf(IF Head(parts).filename # None
                 THEN DictSet(files, Head(parts).filename[1], Head(parts).value)
                 ELSE files,
                 Tail(parts))
RECURSIVE FieldsOf(_, _)
FieldsOf(fields, parts) ==
    IF parts = <<>> THEN fields
    ELSE FieldsOf(IF Head(parts).filename = None
                  THEN DictSet(fields, Head(parts).name, Head(parts).value)
                  ELSE fields,
                  Tail(parts))

\* C22: once a multipart/form-data POST has been read, every part with a
\* filename attribute is in files under that filename with its raw bytes,
\* every part with only a name attribute is in multipart_args under that
\* name with its text, and nothing else is in either map (a part never
\* lands in both; of two parts with one key the later is kept).  One file
\* part (name "f", filename "x.png") and one field part (name "k", value
\* "v") give files = {"x.png": bytes} and multipart_args = {"k": "v"}.
C22_MultipartPartsRouted ==
    \A c \in DOMAIN conns : \A parts \in UploadLists :
        (conns[c].stream = UploadOf(parts) /\ ReadEnded(conns[c]))
        => /\ ~ReadRaised(conns[c])
           /\ conns[c].conn.files = FilesOf(EmptyDict, parts)
           /\ conns[c].conn.multipart_args = FieldsOf(EmptyDict, parts)

\* The upload of the file part f/x.png followed by the field part k = v has
\* been read and its handler called: files holds the raw bytes under
\* x.png and nothing else, multipart_args holds v under k and nothing else.
C22_Witness ==
    \E c \in DOMAIN conns :
        /\ conns[c].handler_calls = 1
        /\ DOMAIN conns[c].conn.files = {F_x_png}
        /\ conns[c].conn.files[F_x_png] = <<B_ff>> \o CRLFCRLF \o <<"=", ";">>
        /\ DOMAIN conns[c].conn.multipart_args = {<<"k">>}
        /\ conns[c].conn.multipart_args[<<"k">>] = <<"v">>

\* Two keys that differ in casing only: str.lower() or str.upper() makes
\* them the same text
SameKey(k1, k2) == lower(k1) = lower(k2) \/ upper(k1) = upper(k2)

\* C23: header lookup is case-insensitive.  At any time membership and
\* lookup give the same result for every casing of a key, and a store of v
\* under k makes every casing of k look up v (the value most recently
\* stored under any casing) and changes the result for no other key.
C23_HeaderLookupIgnoresCase ==
    /\ [](\A c \in DOMAIN conns : \A k1, k2 \in HeaderKeys :
            SameKey(k1, k2)
            => /\ CID_contains(conns[c].conn.headers, k1)
                  <=> CID_contains(conns[c].conn.headers, k2)
               /\ CID_get(conns[c].conn.headers, k1)
                  = CID_get(conns[c].conn.headers, k2))
    /\ [][\A c \in DOMAIN conns : \A k \in HeaderKeys : \A v \in HeaderValues :
            SetHeader(c, k, v)
            => \A k2 \in HeaderKeys :
                   IF SameKey(k, k2)
                   THEN /\ CID_contains(conns'[c].conn.headers, k2)
                        /\ CID_getitem(conns'[c].conn.headers, k2) = v
                   ELSE CID_get(conns'[c].conn.headers, k2)
                        = CID_get(conns[c].conn.headers, k2)]_vars

\* The form fields that Req_form carries
FormPairs == {[k |-> <<"k">>, v |-> <<"v">>], [k |-> <<"a">>, v |-> <<"b"," ","c">>]}

\* C24: for a POST whose Content-Type is application/x-www-form-urlencoded,
\* once read() is over the connection holds every key/value pair of the
\* percent-decoded body among its form fields.
C24_UrlencodedFormDecoded ==
    \A c \in DOMAIN conns :
        (conns[c].stream = Req_form /\ ReadEnded(conns[c]))
        => /\ ~ReadRaised(conns[c])
           /\ \A p \in FormPairs :
                  \/ /\ p.k \in DOMAIN conns[c].conn.multipart_args
                     /\ conns[c].conn.multipart_args[p.k] = p.v
                  \/ /\ p.k \in DOMAIN conns[c].conn.args
                     /\ conns[c].conn.args[p.k] = p.v

\* C25: a request with a header line without ':' is aborted without a
\* response, also when the line comes after a valid Host header: once the
\* request has been read no handler is invoked for it and nothing is
\* written to its socket.
C25_BadHeaderLineAborts ==
    \A c \in DOMAIN conns :
        (conns[c].stream = Req_bad_hdr /\ ReadEnded(conns[c]))
        => /\ conns[c].handler_calls = 0
           /\ conns[c].out = <<>>
           /\ conns[c].sent = <<>>

\* A write of the task has failed
WriteFailed(t) == \E i \in DOMAIN t.sent : ~t.sent[i].ok

\* C26: a write that fails because the peer's socket is broken, closed or
\* reset never propagates out of send: the task of the connection ends with
\* no exception, having gone on to the close of its socket, and the
\* listener keeps accepting.
C26_WriteFailureSwallowed ==
    \A c \in DOMAIN conns :
        WriteFailed(conns[c])
        => /\ conns[c].exc = ""
           /\ conns[c].pc = "done"
           /\ loop = "running"
           /\ runner_task = [pc |-> "accepting", must_cancel |-> FALSE]

\* The step in which the runner enters Listening; the step in which the
\* first shutdown request begins the shutdown
EntersListening == Count(events', "listening") > Count(events, "listening")
BeginsShutdown  == shutdown_reqs = 0 /\ shutdown_reqs' = 1

\* C27: every coroutine that is pending when the runner enters Listening
\* (registered with add_pending_task before run and not removed) is started
\* as a task in that step and in no other, and the pending set is empty
\* from then on.  Every task that is in the task set when the shutdown
\* begins, started from the pending set or added with add_task and not
\* removed, has its cancellation requested in that step, and all of them
\* have ended before after_serving runs.
C27_TasksStartedAndCancelled ==
    /\ [](Count(events, "listening") <= 1)
    /\ [](runner_task.pc = "accepting" => task_coros = {})
    /\ [][EntersListening
            => /\ task_coros' = {}
               /\ \A i \in task_coros :
                      /\ i \notin DOMAIN tasks
                      /\ i \in DOMAIN tasks' /\ tasks'[i] = "running"]_vars
    /\ [][\A i \in CoroIds :
            (i \in DOMAIN tasks' /\ i \notin DOMAIN tasks)
            => EntersListening /\ i \in task_coros]_vars
    /\ [][BeginsShutdown
            => \A j \in DOMAIN tasks :
                   /\ j \in DOMAIN tasks'
                   /\ tasks'[j] # "running"
                   /\ tasks[j] = "running" => tasks'[j] = "cancelling"]_vars
    /\ [](Count(events, "after_serving") >= 1
            => \A j \in DOMAIN tasks : tasks[j] \in {"cancelled", "finished"})

\* Two coroutines were registered and the second removed again, the first
\* was started at Listening, a task of the application was added, and the
\* shutdown has cancelled both tasks before after_serving ran.
C27_Witness ==
    /\ after_serving
    /\ task_coros = {}
    /\ DOMAIN tasks = {1, MaxPending + 1}
    /\ \A j \in DOMAIN tasks : tasks[j] = "cancelled"
    /\ Count(events, "after_serving") = 1
    /\ loop = "closed"

\* C28: Connection.read returns for every behaviour of the peer.  Once the
\* peer has closed, a task that is still in the header loop or in the body
\* loop of read leaves it, and no task keeps the event loop from running
\* the other tasks.
C28_ReadEndsWhenPeerCloses ==
    /\ [](loop # "blocked")
    /\ \A c \in 1..MaxEarlyConns :
           (c \in DOMAIN conns /\ conns[c].peer = "gone")
           ~> (c \in DOMAIN conns /\ ReadEnded(conns[c]))

\* C29: under any interleaving of concurrent calls, a function wrapped
\* with async_cache is awaited at most once per argument key between two
\* cache_clear calls (a call that starts while another call with the same
\* arguments is awaiting the function does not invoke it again), and the
\* calls with one key made between two cache_clear calls all return the
\* same value.
C29_AwaitedOncePerKey ==
    cached # None
    => /\ \A k \in DOMAIN cached[1].awaited : cached[1].awaited[k] <= 1
       /\ \A i, j \in DOMAIN cached[1].calls :
              (/\ cached[1].calls[i].key = cached[1].calls[j].key
               /\ cached[1].calls[i].clears = cached[1].calls[j].clears
               /\ cached[1].calls[i].pc = "done"
               /\ cached[1].calls[j].pc = "done")
              => cached[1].calls[i].val = cached[1].calls[j].val

\* The calls made since the last reset of the counter up to call i: from
\* the last call up to i that reset it, or from the first call.
WindowStart(calls, i) ==
    IF \E k \in 1..i : calls[k].reset
    THEN CHOOSE k \in 1..i : calls[k].reset /\ \A m \in (k+1)..i : ~calls[m].reset
    ELSE 1
InvokedIn(calls, a, b) == Cardinality({j \in a..b : calls[j].ret = "f"})

\* C30: for a function wrapped with ratelimit(period, max_count,
\* default_return), between two consecutive resets of the shared counter
\* the function is invoked at most max_count times, every further call in
\* that window returns default_return without invoking it, and the counter
\* is reset only by a call made at least one period after the previous
\* reset.
C30_AtMostMaxCountPerWindow ==
    limited # None
    => \A i \in DOMAIN limited[1].calls :
          /\ InvokedIn(limited[1].calls, WindowStart(limited[1].calls, i), i)
                <= limited[1].max_count
          /\ i - WindowStart(limited[1].calls, i) >= limited[1].max_count
                => limited[1].calls[i].ret = "default"
          /\ limited[1].calls[i].reset
                => limited[1].calls[i].at - limited[1].calls[i].since
                     >= limited[1].period

\* max_count calls invoked the function, the next call in the window
\* returned default_return, and a later call reset the counter and invoked
\* the function again.
C30_Witness ==
    /\ limited # None
    /\ limited[1].max_count = 2
    /\ limited[1].period = 2
    /\ \E i \in DOMAIN limited[1].calls : \E j \in DOMAIN limited[1].calls :
          /\ i + 3 = j
          /\ limited[1].calls[i].reset
          /\ limited[1].calls[i].ret = "f" /\ limited[1].calls[i+1].ret = "f"
          /\ limited[1].calls[i+2].ret = "default" /\ ~limited[1].calls[i+2].reset
          /\ limited[1].calls[j].reset /\ limited[1].calls[j].ret = "f"

====
